---- MODULE Spec2Model ----
(***************************************************************************)
(* ReLuLu / Spectra systemic-risk engine.                                  *)
(*                                                                         *)
(* Six parts of the backend are modelled:                                   *)
(*   - core/optimize.py: OptimizationNode.minimize_payload, the circular   *)
(*     netting of an obligation matrix (specification NetSpec);            *)
(*   - api/ticker.py + app.py: the background ticker, its worker calls,    *)
(*     the lifespan that starts and cancels it, and the API readers of     *)
(*     the cached forecast (specification Spec).                           *)
(*   - core/alerts.py and core/backtest.py: the AlertManager and the       *)
(*     BacktestEngine with their JSON files (specification StoreSpec);     *)
(*   - core/forecast_engine.py: ForecastEngine._build_obligations          *)
(*     (specification OblSpec);                                            *)
(*   - core/optimize.py: OptimizationNode.get_systemic_hubs on diagonal    *)
(*     risk matrices (specification HubSpec);                              *)
(*   - core/forecast_engine.py: run_forecast and _analyse_horizon on       *)
(*     inputs that may hold non-finite entries (specification RunSpec).    *)
(*                                                                         *)
(* Amounts are fixed-point: one unit is 1e-5, the pruning threshold of     *)
(* optimize.py line 63.  Floating-point rounding is not modelled.          *)
(***************************************************************************)
EXTENDS Integers, Sequences, FiniteSets, TLC

\* ------------------------------------------------------------------ bounds
\* Largest entry of a generated obligation matrix, in units of 1e-5.
MaxW == 3
\* Most non-zero entries (edges) of a generated obligation matrix.
MaxEdges == 4
\* Centrality score of a hub in a generated centrality vector; every other
\* node scores 0.
MaxC == 1

\* Largest magnitude of a diagonal entry of a generated risk matrix.
MaxD == 2

\* Most non-finite entries of the generated inputs of one forecast run.
MaxBad == 1

\* Most heartbeats of the ticker.
MaxBeats == 62

\* Alerts one AlertManager fires before check_alerts is called no more, in
\* the behaviours that fill the triggered list (RingSpec).
MaxFired == 52
\* The same in the behaviours that change snapshots and restart (StoreSpec).
MaxFiredShort == 2
\* create_alert, update_alert and delete_alert calls in one behaviour.
MaxRuleOps == 1
\* Changes of the forecast snapshot, or of the predictions fed to the backtest.
MaxEnvChanges == 1
\* Process restarts in one behaviour.
MaxRestarts == 1
\* Storage writes that fail in one behaviour.
MaxWriteFailures == 1
\* store_prediction calls before the model stops, in the behaviours that
\* outgrow the file (KeepSpec).
MaxStored == 102
\* The same in the behaviours of StoreSpec.
MaxStoredShort == 4
\* update_actuals calls in one behaviour.
MaxActualOps == 2
\* Largest entry of a generated base exposure matrix.
MaxB == 1

\* --------------------------------------------------------------- constants
\* The pruning threshold 1e-5 of optimize.py line 63, in units of 1e-5.
EPS == 1
\* 1.0 in units of 1e-5.
ONE == 100000

\* The institutions, numbered as numpy indexes them.  The end-to-end
\* scenarios of spec section 8 use three nodes: A is 0, B is 1, C is 2.
Nodes == 0 .. 2
Pairs == Nodes \X Nodes
OffDiag == {p \in Pairs : p[1] # p[2]}

VARIABLES
  \* ---- minimize_payload (core/optimize.py)
  predicted_trades,   \* the matrix the current call was given
  centrality_scores,  \* the centrality vector the current call was given
  G,                  \* the DiGraph: a function from its edges to their weights
  cycles,             \* the cycles of the sorted list not yet iterated over
  initial_volume,
  final_volume,
  optimized_matrix,
  npc,                \* position in minimize_payload: "call", "loop", "done"
  napply,             \* 1: the first call; 2: the call on the first call's output
  pruned_residue,     \* history: weight the current call removed by pruning edges
  \* ---- api/ticker.py module state
  tick_count,
  last_data_refresh,  \* 0 is the placeholder; else the refresh that stamped it
  last_forecast_time, \* 0 is the placeholder; else the recompute that stamped it
  tick_running,
  tick_errors,
  cached_forecast,    \* NoForecast (None) or a forecast result
  \* ---- locals of ticker_task
  data_countdown,
  forecast_countdown,
  \* ---- app.py module state
  app_engine,         \* _engine: NoEngine (None) or an engine
  app_loader,         \* _loader: 0 (None) or the data set loaded
  \* ---- control
  lpc,                \* position of lifespan
  tpc,                \* position of ticker_task
  cancel_requested,   \* task.cancel() was called and not yet delivered
  wpc,                \* position of the executor's worker thread
  wk_awaited,         \* who awaits the worker's future: a coroutine or "nobody"
  wk_result,          \* the future: "none", "ok" or "error"
  wk_engine,          \* run_forecast: self
  wk_horizons,        \* run_forecast: the local list horizons
  wk_run,             \* which recompute call the worker executes
  beats,              \* heartbeats so far
  runs,               \* recompute calls so far
  refreshes,          \* data sets loaded so far
  observed,           \* <<>> or <<the value a reader last read from the cache>>
  \* ---- history of the current heartbeat, for the properties
  tick_cache0,        \* cached_forecast when the heartbeat began
  tick_time0,         \* last_forecast_time when the heartbeat began
  errors_before,      \* tick_errors when the heartbeat began
  beat_outcome,       \* how the latest heartbeat ended: "none", "ok", "failed"
  beat_refresh,       \* the data set a refresh of this heartbeat installed, or 0
  streak,             \* failed heartbeats in a row, since a success or cooldown
  failed_step,        \* the step that raised in the latest heartbeat, or "none"
  \* ---- AlertManager (core/alerts.py) and its file alerts.json
  apc,                \* "none": no AlertManager constructed; "up": constructed
  alerts,             \* self.alerts
  triggered,          \* self.triggered
  alerts_file,        \* alerts.json: absent, written whole, or torn
  uuids,              \* identifiers uuid4() has issued so far
  forecast_data,      \* the snapshot fields the /alerts/check route passes
  alert_call,         \* the latest AlertManager call: arguments and outcome
  fired_log,          \* history: every alert this AlertManager has fired
  cleared,            \* history: clear_triggered was called on this AlertManager
  fire_limit,         \* alerts the callers let one AlertManager fire
  \* ---- BacktestEngine (core/backtest.py) and its file backtest_history.json
  bpc,                \* "none": no BacktestEngine constructed; "up": constructed
  history,            \* self.history
  backtest_file,      \* backtest_history.json: absent, written whole, or torn
  feed,               \* the horizon and predictions the caller stores next
  bt_call,            \* the latest BacktestEngine call: arguments and outcome
  stored,             \* store_prediction calls so far (the clock of timestamps)
  store_limit,        \* store_prediction calls the callers make
  \* ---- the callers of both objects
  rule_ops,           \* create/update/delete calls so far
  actual_ops,         \* update_actuals calls so far
  env_changes,        \* changes of forecast_data or feed so far
  restarts,           \* process restarts so far
  write_failures,     \* storage writes that have failed so far
  fail_limit,         \* storage writes that fail in this behaviour, at most
  \* ---- ForecastEngine._build_obligations (core/forecast_engine.py)
  opc,                \* "idle", "call", "done"
  node_scores,        \* 100 * s[i], in tenths
  base_obligations,   \* B
  obligations,        \* the returned matrix, in tenths
  \* ---- OptimizationNode.get_systemic_hubs (core/optimize.py)
  hpc,                \* "idle", "call", "done"
  risk_matrix,        \* the matrix the calls are given
  hubs,               \* what the latest call returned
  hubs_before,        \* what the call before it returned
  hubs_calls,         \* calls so far
  \* ---- ForecastEngine.run_forecast (core/forecast_engine.py)
  rpc,                \* position of the run: "idle", "build", "jacobian",
                      \* "hubs", "netting", "publish", "returned", "raised"
  liquidity,          \* loader.build_liquidity()
  run_base,           \* loader.build_base_obligations()
  run_k,              \* horizons the model forecasts
  pred_O,             \* _analyse_horizon: the obligations of this horizon
  risk_adj,           \* _analyse_horizon: the Jacobian: "none", "finite", "nonfinite"
  run_horizons,       \* run_forecast: the local list horizons
  run_cache,          \* ticker.cached_forecast, as this run finds and leaves it
  cache_before,       \* history: ticker.cached_forecast when the run began
  jacobians           \* history: calls of _risk_jacobian in this run

netVars == <<predicted_trades, centrality_scores, G, cycles, initial_volume,
             final_volume, optimized_matrix, npc, napply, pruned_residue>>

tickVars == <<tick_count, last_data_refresh, last_forecast_time, tick_running,
              tick_errors, cached_forecast, data_countdown, forecast_countdown,
              app_engine, app_loader, lpc, tpc, cancel_requested, wpc,
              wk_awaited, wk_result, wk_engine, wk_horizons, wk_run, beats,
              runs, refreshes, observed>>

histVars == <<tick_cache0, tick_time0, errors_before, beat_outcome,
              beat_refresh, streak, failed_step>>

schedVars == <<tickVars, histVars>>

alertVars == <<apc, alerts, triggered, alerts_file, uuids, forecast_data,
               alert_call, fired_log, cleared, fire_limit>>

backtestVars == <<bpc, history, backtest_file, feed, bt_call, stored,
                  store_limit>>

callerVars == <<rule_ops, actual_ops, env_changes, restarts, write_failures,
                fail_limit>>

oblVars == <<opc, node_scores, base_obligations, obligations>>

hubVars == <<hpc, risk_matrix, hubs, hubs_before, hubs_calls>>

runVars == <<rpc, liquidity, run_base, run_k, pred_O, risk_adj, run_horizons,
             run_cache, cache_before, jacobians>>

engVars == <<hubVars, runVars>>

svcVars == <<alertVars, backtestVars, callerVars, oblVars, engVars>>

vars == <<netVars, schedVars, svcVars>>

\* ----------------------------------------------------------------- helpers
RECURSIVE SumOver(_, _)
\* sum of f[x] over the finite set S \subseteq DOMAIN f
SumOver(f, S) ==
  IF S = {} THEN 0
  ELSE LET x == CHOOSE y \in S : TRUE IN f[x] + SumOver(f, S \ {x})

RECURSIVE SumSeq(_)
SumSeq(s) == IF s = <<>> THEN 0 ELSE Head(s) + SumSeq(Tail(s))

MinOf(S) == CHOOSE m \in S : \A x \in S : m <= x
MaxOf(S) == CHOOSE m \in S : \A x \in S : m >= x

\* nx.DiGraph(array): one edge per non-zero entry, weighted by the entry.
DiGraph(M) == [p \in {q \in Pairs : M[q] # 0} |-> M[p]]

\* G.has_edge(u, v)
HasEdge(g, u, v) == <<u, v>> \in DOMAIN g

\* G.size(weight="weight"): the sum of the edge weights.
Size(g) == SumOver(g, DOMAIN g)

\* G.remove_edge(u, v)
RemoveEdge(g, e) == [p \in (DOMAIN g) \ {e} |-> g[p]]

\* zip(cycle, cycle[1:] + [cycle[0]])
CycleEdges(c) ==
  [i \in 1 .. Len(c) |-> <<c[i], IF i = Len(c) THEN c[1] ELSE c[i + 1]>>]

CycleEdgeSet(c) == {CycleEdges(c)[i] : i \in 1 .. Len(c)}

\* nx.simple_cycles(G): every elementary cycle once.  A cycle is a sequence of
\* distinct nodes, written from its smallest node (networkx yields one rotation
\* per cycle; which one does not change its edges or its key).
SimpleCycles(g) ==
  {c \in UNION {[1 .. k -> Nodes] : k \in 1 .. Cardinality(Nodes)} :
     /\ \A i, j \in 1 .. Len(c) : i # j => c[i] # c[j]
     /\ \A i \in 2 .. Len(c) : c[1] < c[i]
     /\ \A i \in 1 .. Len(c) : CycleEdges(c)[i] \in DOMAIN g}

\* key=lambda c: sum(centrality_scores[n] for n in c)
CycleKey(cs, c) == SumSeq([i \in 1 .. Len(c) |-> cs[c[i]]])

\* the sort without reverse=True: the smallest key first
NextCyclesAscending(cs, left) ==
  {c \in left : \A d \in left : CycleKey(cs, c) <= CycleKey(cs, d)}

\* cycles.sort(key=..., reverse=True): the next cycle the loop takes is one of
\* the largest key among those left.  The order of equal keys is the order in
\* which networkx enumerated them, which the source does not fix: any.
NextCycles(cs, left) ==
  {c \in left : \A d \in left : CycleKey(cs, c) >= CycleKey(cs, d)}

\* min_val taken as the largest weight of the cycle
MinValMax(g, c) == MaxOf({g[e] : e \in CycleEdgeSet(c)})

\* min_val taken over every edge of the graph, not only the cycle's
MinValGlobal(g, c) == MinOf({g[e] : e \in DOMAIN g})

\* min_val = min(weights)
MinVal(g, c) == MinOf({g[e] : e \in CycleEdgeSet(c)})

\* the subtraction written with the wrong sign: G[u][v]["weight"] += min_val
RECURSIVE SubtractAlongAdd(_, _, _, _)
SubtractAlongAdd(g, es, i, m) ==
  IF i > Len(es) THEN g
  ELSE LET e == es[i]
           w == g[e] + m
           g1 == IF w <= EPS THEN RemoveEdge(g, e) ELSE [g EXCEPT ![e] = w]
       IN SubtractAlongAdd(g1, es, i + 1, m)

\* G[u][v]["weight"] -= min_val; if G[u][v]["weight"] <= 1e-5: G.remove_edge
RECURSIVE SubtractAlong(_, _, _, _)
SubtractAlong(g, es, i, m) ==
  IF i > Len(es) THEN g
  ELSE LET e == es[i]
           w == g[e] - m
           g1 == IF w <= EPS THEN RemoveEdge(g, e) ELSE [g EXCEPT ![e] = w]
       IN SubtractAlong(g1, es, i + 1, m)

\* edges = zip(cycle, cycle[1:]): the closing edge of the cycle left out of
\* the subtraction
CancelOneOpen(g, c) ==
  LET es == CycleEdges(c)
      valid_cycle == \A i \in 1 .. Len(es) : HasEdge(g, es[i][1], es[i][2])
  IN IF valid_cycle /\ Len(es) > 0
     THEN SubtractAlong(g, SubSeq(es, 1, Len(es) - 1), 1, MinVal(g, c))
     ELSE g

\* The body of "for cycle in cycles" (lines 46-64) for one cycle.
CancelOne(g, c) ==
  LET es == CycleEdges(c)
      valid_cycle == \A i \in 1 .. Len(es) : HasEdge(g, es[i][1], es[i][2])
  IN IF valid_cycle /\ Len(es) > 0
     THEN SubtractAlong(g, es, 1, MinVal(g, c))
     ELSE g

\* lines 62-64 for one cycle: the weight left on the edges the loop removes,
\* beyond the min_val it subtracted (an edge is removed at a remainder of
\* 1e-5 or less, not only at 0).
PrunedResidue(g, c) ==
  LET es == CycleEdgeSet(c)
  IN IF es \subseteq DOMAIN g
     THEN LET gone == {e \in es : g[e] - MinOf({g[d] : d \in es}) <= EPS}
          IN SumOver([e \in gone |-> g[e] - MinOf({g[d] : d \in es})], gone)
     ELSE 0

\* nx.to_numpy_array(G, nodelist=range(len(centrality_scores)))
ToNumpyArray(g) == [p \in Pairs |-> IF p \in DOMAIN g THEN g[p] ELSE 0]

\* _analyse_horizon line 93: the payload reduction, in whole percent.
PayloadReduction(raw_load, net_load) ==
  IF raw_load > 0 THEN ((raw_load - net_load) * 100) \div raw_load ELSE 0

\* ------------------------------------------------------------ the inputs
\* The matrix with the off-diagonal entries f and a zero diagonal.
ZeroDiag(f) == [p \in Pairs |-> IF p[1] = p[2] THEN 0 ELSE f[p]]

\* Obligation matrices with zero diagonal, entries 0 .. MaxW and at most
\* MaxEdges non-zero entries.
SmallMatrices ==
  {ZeroDiag(f) : f \in {h \in [OffDiag -> 0 .. MaxW] :
                          Cardinality({p \in OffDiag : h[p] # 0}) <= MaxEdges}}

\* spec section 8: A->B = ab, B->C = bc, C->A = ca, in whole units of 1.0
Triangle(ab, bc, ca) ==
  [p \in Pairs |-> CASE p = <<0, 1>> -> ab * ONE
                     [] p = <<1, 2>> -> bc * ONE
                     [] p = <<2, 0>> -> ca * ONE
                     [] OTHER -> 0]

ScenarioMatrices == {Triangle(10, 10, 10), Triangle(10, 5, 10)}

\* ============================================ the ticker and its workers
\* data/constants.py
DATA_REFRESH_INTERVAL == 60
FORECAST_RECOMPUTE_INTERVAL == 60
MAX_TICK_ERRORS == 5
\* core/forecast_engine.py: ForecastEngine.HORIZONS
HORIZONS == 5

\* None, as the value of cached_forecast (results have run >= 1)
NoForecast == [run |-> 0, data |-> 0, horizons |-> << >>]
\* None, as the value of _engine (engines have loader >= 1)
NoEngine == [loader |-> 0, temporal |-> FALSE]

\* How many snapshots run_forecast of engine e builds: one per horizon of the
\* temporal model, a single one for the legacy model.
NumHorizons(e) == IF e.temporal THEN HORIZONS ELSE 1

pubVars == <<last_data_refresh, last_forecast_time, cached_forecast>>
appVars == <<app_engine, app_loader, refreshes>>
loopVars == <<tick_count, tick_errors, data_countdown, forecast_countdown>>
workerVars == <<wpc, wk_awaited, wk_result, wk_engine, wk_horizons, wk_run, runs>>

\* The module-level state of api/ticker.py and app.py as imported, before the
\* lifespan has run.
SchedInit ==
  /\ tick_count = 0
  /\ last_data_refresh = 0
  /\ last_forecast_time = 0
  /\ tick_running = FALSE
  /\ tick_errors = 0
  /\ cached_forecast = NoForecast
  /\ data_countdown = 0
  /\ forecast_countdown = 0
  /\ app_engine = NoEngine
  /\ app_loader = 0
  /\ lpc = "startup"
  /\ tpc = "none"
  /\ cancel_requested = FALSE
  /\ wpc = "idle"
  /\ wk_awaited = "nobody"
  /\ wk_result = "none"
  /\ wk_engine = NoEngine
  /\ wk_horizons = << >>
  /\ wk_run = 0
  /\ beats = 0
  /\ runs = 0
  /\ refreshes = 0
  /\ observed = << >>
  /\ tick_cache0 = NoForecast
  /\ tick_time0 = 0
  /\ errors_before = 0
  /\ beat_outcome = "none"
  /\ beat_refresh = 0
  /\ streak = 0
  /\ failed_step = "none"

\* ------------------------------------------------------------ the workers
\* loop.run_in_executor(None, refresh_data_sync), awaited by who
StartRefresh(who) ==
  /\ wpc = "idle"
  /\ wpc' = "refresh_load"
  /\ wk_awaited' = who
  /\ wk_result' = "none"
  /\ UNCHANGED <<wk_engine, wk_horizons, wk_run, runs>>

\* loop.run_in_executor(None, recompute_forecast_sync), awaited by who
StartRecompute(who) ==
  /\ wpc = "idle"
  /\ wpc' = "recompute_call"
  /\ wk_awaited' = who
  /\ wk_result' = "none"
  /\ wk_engine' = NoEngine
  /\ wk_horizons' = << >>
  /\ wk_run' = runs + 1
  /\ runs' = runs + 1

\* The worker's function ends, normally ("ok") or by raising ("error"): the
\* future takes the outcome, unless its awaiter was cancelled, which cancelled
\* the future and leaves the thread running to its end.
WorkerEnds(outcome) ==
  /\ wpc' = "idle"
  /\ wk_result' = IF wk_awaited = "nobody" THEN "none" ELSE outcome

\* app.py line 40: _loader = TimeSeriesLoader(period="2y").load()
RefreshLoad ==
  /\ wpc = "refresh_load"
  /\ \/ /\ refreshes' = refreshes + 1
        /\ app_loader' = refreshes + 1
        /\ wpc' = "refresh_engine"
        /\ UNCHANGED <<wk_result, app_engine>>
     \/ /\ WorkerEnds("error")
        /\ UNCHANGED appVars
  /\ UNCHANGED <<wk_awaited, wk_engine, wk_horizons, wk_run, runs, pubVars,
                 loopVars, tick_running, lpc, tpc, cancel_requested, beats,
                 observed, histVars, netVars, svcVars>>

\* app.py lines 42-51: load the model, _engine = ForecastEngine(model, _loader)
RefreshEngine ==
  /\ wpc = "refresh_engine"
  /\ \/ /\ \E t \in BOOLEAN : app_engine' = [loader |-> app_loader, temporal |-> t]
        /\ wpc' = "refresh_stamp"
        /\ UNCHANGED wk_result
     \/ /\ WorkerEnds("error")
        /\ UNCHANGED app_engine
  /\ UNCHANGED <<wk_awaited, wk_engine, wk_horizons, wk_run, runs, pubVars,
                 app_loader, refreshes, loopVars, tick_running, lpc, tpc,
                 cancel_requested, beats, observed, histVars, netVars, svcVars>>

\* ticker.py line 42: last_data_refresh = _now_iso()
RefreshStamp ==
  /\ wpc = "refresh_stamp"
  /\ last_data_refresh' = app_loader
  /\ WorkerEnds("ok")
  /\ UNCHANGED <<wk_awaited, wk_engine, wk_horizons, wk_run, runs,
                 last_forecast_time, cached_forecast, appVars, loopVars,
                 tick_running, lpc, tpc, cancel_requested, beats, observed,
                 histVars, netVars, svcVars>>

\* recompute_forecast_sync with its two statements swapped: the stamp is
\* written before _recompute_fn() is called
RecomputeCallStampFirst ==
  /\ wpc = "recompute_call"
  /\ last_forecast_time' = wk_run
  /\ \/ /\ app_engine = NoEngine
        /\ wpc' = "recompute_publish"
        /\ UNCHANGED <<wk_engine, wk_result>>
     \/ /\ app_engine # NoEngine
        /\ wk_engine' = app_engine
        /\ wpc' = "recompute_horizon"
        /\ UNCHANGED wk_result
     \/ /\ app_engine # NoEngine
        /\ WorkerEnds("error")
        /\ UNCHANGED wk_engine
  /\ UNCHANGED <<wk_awaited, wk_horizons, wk_run, runs, last_data_refresh,
                 cached_forecast, appVars, loopVars, tick_running, lpc, tpc,
                 cancel_requested, beats, observed, histVars, netVars, svcVars>>

\* ticker.py lines 48-49, app.py lines 56-58, forecast_engine.py lines 153-163:
\* _recompute_fn() is entered; without an engine it returns None, with one it
\* builds the inputs of run_forecast, which may raise.
RecomputeCall ==
  /\ wpc = "recompute_call"
  /\ \/ /\ app_engine = NoEngine
        /\ wpc' = "recompute_publish"
        /\ UNCHANGED <<wk_engine, wk_result>>
     \/ /\ app_engine # NoEngine
        /\ wk_engine' = app_engine
        /\ wpc' = "recompute_horizon"
        /\ UNCHANGED wk_result
     \/ /\ app_engine # NoEngine
        /\ WorkerEnds("error")
        /\ UNCHANGED wk_engine
  /\ UNCHANGED <<wk_awaited, wk_horizons, wk_run, runs, pubVars, appVars,
                 loopVars, tick_running, lpc, tpc, cancel_requested, beats,
                 observed, histVars, netVars, svcVars>>

\* run_forecast appending each snapshot to the result the cache already holds
RecomputeHorizonShared ==
  /\ wpc = "recompute_horizon"
  /\ \/ /\ wk_horizons' = Append(wk_horizons,
                                 [run |-> wk_run,
                                  horizon |-> Len(wk_horizons) + 1,
                                  of |-> NumHorizons(wk_engine),
                                  data |-> wk_engine.loader])
        /\ cached_forecast' = [run |-> wk_run, data |-> wk_engine.loader,
                               horizons |-> wk_horizons']
        /\ wpc' = IF Len(wk_horizons) + 1 = NumHorizons(wk_engine)
                  THEN "recompute_publish" ELSE "recompute_horizon"
        /\ UNCHANGED wk_result
     \/ /\ WorkerEnds("error")
        /\ UNCHANGED <<wk_horizons, cached_forecast>>
  /\ UNCHANGED <<wk_awaited, wk_engine, wk_run, runs, last_data_refresh,
                 last_forecast_time, appVars, loopVars, tick_running, lpc, tpc,
                 cancel_requested, beats, observed, histVars, netVars, svcVars>>

\* _recompute_forecast catching the exception of run_forecast and returning
\* None in its place
RecomputeHorizonSwallows ==
  /\ wpc = "recompute_horizon"
  /\ \/ /\ wk_horizons' = Append(wk_horizons,
                                 [run |-> wk_run,
                                  horizon |-> Len(wk_horizons) + 1,
                                  of |-> NumHorizons(wk_engine),
                                  data |-> wk_engine.loader])
        /\ wpc' = IF Len(wk_horizons) + 1 = NumHorizons(wk_engine)
                  THEN "recompute_publish" ELSE "recompute_horizon"
        /\ UNCHANGED <<wk_result, wk_engine>>
     \/ /\ wk_engine' = NoEngine
        /\ wpc' = "recompute_publish"
        /\ UNCHANGED <<wk_result, wk_horizons>>
  /\ UNCHANGED <<wk_awaited, wk_run, runs, pubVars, appVars,
                 loopVars, tick_running, lpc, tpc, cancel_requested, beats,
                 observed, histVars, netVars, svcVars>>

\* forecast_engine.py lines 164-178: one _analyse_horizon, appended to horizons
RecomputeHorizon ==
  /\ wpc = "recompute_horizon"
  /\ \/ /\ wk_horizons' = Append(wk_horizons,
                                 [run |-> wk_run,
                                  horizon |-> Len(wk_horizons) + 1,
                                  of |-> NumHorizons(wk_engine),
                                  data |-> wk_engine.loader])
        /\ wpc' = IF Len(wk_horizons) + 1 = NumHorizons(wk_engine)
                  THEN "recompute_publish" ELSE "recompute_horizon"
        /\ UNCHANGED wk_result
     \/ /\ WorkerEnds("error")
        /\ UNCHANGED wk_horizons
  /\ UNCHANGED <<wk_awaited, wk_engine, wk_run, runs, pubVars, appVars,
                 loopVars, tick_running, lpc, tpc, cancel_requested, beats,
                 observed, histVars, netVars, svcVars>>

\* forecast_engine.py lines 180-183 and ticker.py line 49:
\* cached_forecast = the value _recompute_fn() returned
RecomputePublish ==
  /\ wpc = "recompute_publish"
  /\ cached_forecast' =
       IF wk_engine = NoEngine THEN NoForecast
       ELSE [run |-> wk_run, data |-> wk_engine.loader, horizons |-> wk_horizons]
  /\ wpc' = "recompute_stamp"
  /\ UNCHANGED <<wk_awaited, wk_result, wk_engine, wk_horizons, wk_run, runs,
                 last_data_refresh, last_forecast_time, appVars, loopVars,
                 tick_running, lpc, tpc, cancel_requested, beats, observed,
                 histVars, netVars, svcVars>>

\* ticker.py line 50: last_forecast_time = _now_iso()
RecomputeStamp ==
  /\ wpc = "recompute_stamp"
  /\ last_forecast_time' = wk_run
  /\ WorkerEnds("ok")
  /\ UNCHANGED <<wk_awaited, wk_engine, wk_horizons, wk_run, runs,
                 last_data_refresh, cached_forecast, appVars, loopVars,
                 tick_running, lpc, tpc, cancel_requested, beats, observed,
                 histVars, netVars, svcVars>>

\* ----------------------------------------------------- lifespan (app.py)
\* lines 65-69: configure the ticker, hand refresh_data_sync to the executor
LifespanStartup ==
  /\ lpc = "startup"
  /\ StartRefresh("lifespan")
  /\ lpc' = "await_refresh"
  /\ UNCHANGED <<pubVars, appVars, loopVars, tick_running, tpc,
                 cancel_requested, beats, observed, histVars, netVars, svcVars>>

\* lines 69-70: the refresh returned; hand recompute_forecast_sync over
LifespanRefreshed ==
  /\ lpc = "await_refresh"
  /\ wk_result = "ok"
  /\ StartRecompute("lifespan")
  /\ lpc' = "await_recompute"
  /\ UNCHANGED <<pubVars, appVars, loopVars, tick_running, tpc,
                 cancel_requested, beats, observed, histVars, netVars, svcVars>>

\* lines 70-71 and 77-81: the recompute returned; create the ticker task
LifespanRecomputed ==
  /\ lpc = "await_recompute"
  /\ wk_result = "ok"
  /\ wk_result' = "none"
  /\ wk_awaited' = "nobody"
  /\ tpc' = "new"
  /\ lpc' = "serving"
  /\ UNCHANGED <<wpc, wk_engine, wk_horizons, wk_run, runs, pubVars, appVars,
                 loopVars, tick_running, cancel_requested, beats, observed,
                 histVars, netVars, svcVars>>

\* lines 72-81: either startup step raised; it is printed, the recompute is
\* skipped if it had not begun, and the ticker task is created all the same
LifespanStartupError ==
  /\ lpc \in {"await_refresh", "await_recompute"}
  /\ wk_result = "error"
  /\ wk_result' = "none"
  /\ wk_awaited' = "nobody"
  /\ tpc' = "new"
  /\ lpc' = "serving"
  /\ UNCHANGED <<wpc, wk_engine, wk_horizons, wk_run, runs, pubVars, appVars,
                 loopVars, tick_running, cancel_requested, beats, observed,
                 histVars, netVars, svcVars>>

\* line 83 left out: the shutdown cancels the task and leaves tick_running
ShutdownCancelOnly ==
  /\ lpc = "serving"
  /\ cancel_requested' = TRUE
  /\ lpc' = "await_task"
  /\ UNCHANGED <<workerVars, pubVars, appVars, loopVars, tick_running, tpc,
                 beats, observed, histVars, netVars, svcVars>>

\* lines 82-86: shutdown: ticker.tick_running = False; task.cancel(); await task
Shutdown ==
  /\ lpc = "serving"
  /\ tick_running' = FALSE
  /\ cancel_requested' = TRUE
  /\ lpc' = "await_task"
  /\ UNCHANGED <<workerVars, pubVars, appVars, loopVars, tpc, beats, observed,
                 histVars, netVars, svcVars>>

\* lines 86-89: the task is over, "Ticker stopped"
LifespanStopped ==
  /\ lpc = "await_task"
  /\ tpc = "done"
  /\ lpc' = "stopped"
  /\ UNCHANGED <<workerVars, pubVars, appVars, loopVars, tick_running, tpc,
                 cancel_requested, beats, observed, histVars, netVars, svcVars>>

\* ------------------------------------------- ticker_task (api/ticker.py)
\* line 65 and line 106: "while tick_running" is evaluated; the loop goes to
\* the heartbeat sleep of line 67, or ends and line 106 runs.
LoopTop == tpc' = IF tick_running THEN "sleep" ELSE "done"

\* the pause condition written with > for >=
PausedLate(n) == n > MAX_TICK_ERRORS

\* line 99: the pause condition, on the counter just incremented
Paused(n) == n >= MAX_TICK_ERRORS

\* line 77 left out: forecast_countdown keeps its value after a data refresh
ForcedCountdownKept(fc) == fc

\* line 77: the value forecast_countdown takes after a data refresh
ForcedCountdown(fc) == 0

\* lines 56-67: the task starts: tick_running = True, the two countdowns, and
\* the first heartbeat sleep
TickerStart ==
  /\ tpc = "new"
  /\ ~cancel_requested
  /\ tick_running' = TRUE
  /\ data_countdown' = DATA_REFRESH_INTERVAL
  /\ forecast_countdown' = 0
  /\ tpc' = "sleep"
  /\ UNCHANGED <<tick_count, tick_errors, workerVars, pubVars, appVars, lpc,
                 cancel_requested, beats, observed, histVars, netVars, svcVars>>

\* lines 67-89: the heartbeat sleep is over: both countdowns are decremented;
\* a due refresh is handed to the executor, else a due recompute is, else the
\* heartbeat ends with tick_errors = 0.
Heartbeat ==
  /\ tpc = "sleep"
  /\ ~cancel_requested
  /\ beats < MaxBeats
  /\ beats' = beats + 1
  /\ data_countdown' = data_countdown - 1
  /\ forecast_countdown' = forecast_countdown - 1
  /\ tick_cache0' = cached_forecast
  /\ tick_time0' = last_forecast_time
  /\ errors_before' = tick_errors
  /\ beat_refresh' = 0
  /\ failed_step' = "none"
  /\ IF data_countdown - 1 <= 0
     THEN /\ StartRefresh("ticker")
          /\ tpc' = "await_refresh"
          /\ beat_outcome' = "none"
          /\ UNCHANGED <<tick_errors, streak>>
     ELSE IF forecast_countdown - 1 <= 0
     THEN /\ StartRecompute("ticker")
          /\ tpc' = "await_recompute"
          /\ beat_outcome' = "none"
          /\ UNCHANGED <<tick_errors, streak>>
     ELSE /\ tick_errors' = 0
          /\ beat_outcome' = "ok"
          /\ streak' = 0
          /\ LoopTop
          /\ UNCHANGED workerVars
  /\ UNCHANGED <<tick_count, tick_running, pubVars, appVars, lpc,
                 cancel_requested, observed, netVars, svcVars>>

\* lines 75-85: the refresh returned: reset data_countdown, force
\* forecast_countdown, count the tick; then the recompute is due and handed
\* to the executor (or, were it not due, the heartbeat ends)
RefreshReturned ==
  /\ tpc = "await_refresh"
  /\ ~cancel_requested
  /\ wk_result = "ok"
  /\ data_countdown' = DATA_REFRESH_INTERVAL
  /\ forecast_countdown' = ForcedCountdown(forecast_countdown)
  /\ tick_count' = tick_count + 1
  /\ beat_refresh' = app_loader
  /\ IF ForcedCountdown(forecast_countdown) <= 0
     THEN /\ StartRecompute("ticker")
          /\ tpc' = "await_recompute"
          /\ UNCHANGED <<tick_errors, beat_outcome, streak>>
     ELSE /\ tick_errors' = 0
          /\ beat_outcome' = "ok"
          /\ streak' = 0
          /\ LoopTop
          /\ wk_result' = "none"
          /\ wk_awaited' = "nobody"
          /\ UNCHANGED <<wpc, wk_engine, wk_horizons, wk_run, runs>>
  /\ UNCHANGED <<tick_running, pubVars, appVars, lpc, cancel_requested, beats,
                 observed, tick_cache0, tick_time0, errors_before, failed_step,
                 netVars, svcVars>>

\* line 89 left out: the recompute returned and tick_errors is not reset
RecomputeReturnedNoReset ==
  /\ tpc = "await_recompute"
  /\ ~cancel_requested
  /\ wk_result = "ok"
  /\ forecast_countdown' = FORECAST_RECOMPUTE_INTERVAL
  /\ beat_outcome' = "ok"
  /\ streak' = 0
  /\ wk_result' = "none"
  /\ wk_awaited' = "nobody"
  /\ LoopTop
  /\ UNCHANGED <<tick_count, tick_errors, data_countdown, wpc, wk_engine,
                 wk_horizons, wk_run, runs, tick_running, pubVars, appVars,
                 lpc, cancel_requested, beats, observed, tick_cache0,
                 tick_time0, errors_before, beat_refresh, failed_step,
                 netVars, svcVars>>

\* lines 85-89: the recompute returned: reset forecast_countdown,
\* tick_errors = 0, next heartbeat
RecomputeReturned ==
  /\ tpc = "await_recompute"
  /\ ~cancel_requested
  /\ wk_result = "ok"
  /\ forecast_countdown' = FORECAST_RECOMPUTE_INTERVAL
  /\ tick_errors' = 0
  /\ beat_outcome' = "ok"
  /\ streak' = 0
  /\ wk_result' = "none"
  /\ wk_awaited' = "nobody"
  /\ LoopTop
  /\ UNCHANGED <<tick_count, data_countdown, wpc, wk_engine, wk_horizons,
                 wk_run, runs, tick_running, pubVars, appVars, lpc,
                 cancel_requested, beats, observed, tick_cache0, tick_time0,
                 errors_before, beat_refresh, failed_step,
                 netVars, svcVars>>

\* the except clause of line 94 not matching the worker's exception: it
\* leaves ticker_task and ends the task
WorkerRaisedUncaught ==
  /\ tpc \in {"await_refresh", "await_recompute"}
  /\ ~cancel_requested
  /\ wk_result = "error"
  /\ tpc' = "failed"
  /\ beat_outcome' = "failed"
  /\ streak' = streak + 1
  /\ failed_step' = IF tpc = "await_refresh" THEN "refresh" ELSE "recompute"
  /\ wk_result' = "none"
  /\ wk_awaited' = "nobody"
  /\ UNCHANGED <<loopVars, wpc, wk_engine, wk_horizons, wk_run, runs,
                 tick_running, pubVars, appVars, lpc, cancel_requested, beats,
                 observed, tick_cache0, tick_time0, errors_before,
                 beat_refresh, netVars, svcVars>>

\* the except clause resetting data_countdown as if the refresh had returned
WorkerRaisedResets ==
  /\ tpc \in {"await_refresh", "await_recompute"}
  /\ ~cancel_requested
  /\ wk_result = "error"
  /\ tick_errors' = tick_errors + 1
  /\ tpc' = IF Paused(tick_errors + 1) THEN "cooldown" ELSE "backoff"
  /\ beat_outcome' = "failed"
  /\ streak' = streak + 1
  /\ failed_step' = IF tpc = "await_refresh" THEN "refresh" ELSE "recompute"
  /\ wk_result' = "none"
  /\ wk_awaited' = "nobody"
  /\ data_countdown' = DATA_REFRESH_INTERVAL
  /\ UNCHANGED <<tick_count, forecast_countdown, wpc,
                 wk_engine, wk_horizons, wk_run, runs, tick_running, pubVars,
                 appVars, lpc, cancel_requested, beats, observed, tick_cache0,
                 tick_time0, errors_before, beat_refresh, netVars, svcVars>>

\* lines 94-104: the awaited worker raised: count the error, then sleep 300 s
\* when the count reached MAX_TICK_ERRORS, else 10 s
WorkerRaised ==
  /\ tpc \in {"await_refresh", "await_recompute"}
  /\ ~cancel_requested
  /\ wk_result = "error"
  /\ tick_errors' = tick_errors + 1
  /\ tpc' = IF Paused(tick_errors + 1) THEN "cooldown" ELSE "backoff"
  /\ beat_outcome' = "failed"
  /\ streak' = streak + 1
  /\ failed_step' = IF tpc = "await_refresh" THEN "refresh" ELSE "recompute"
  /\ wk_result' = "none"
  /\ wk_awaited' = "nobody"
  /\ UNCHANGED <<tick_count, data_countdown, forecast_countdown, wpc,
                 wk_engine, wk_horizons, wk_run, runs, tick_running, pubVars,
                 appVars, lpc, cancel_requested, beats, observed, tick_cache0,
                 tick_time0, errors_before, beat_refresh, netVars, svcVars>>

\* line 104: the 10 s sleep is over; back to the loop condition
BackoffOver ==
  /\ tpc = "backoff"
  /\ ~cancel_requested
  /\ LoopTop
  /\ UNCHANGED <<loopVars, workerVars, tick_running, pubVars, appVars, lpc,
                 cancel_requested, beats, observed, histVars, netVars, svcVars>>

\* lines 101-102: the 300 s sleep is over: tick_errors = 0; back to the loop
CooldownOver ==
  /\ tpc = "cooldown"
  /\ ~cancel_requested
  /\ tick_errors' = 0
  /\ streak' = 0
  /\ LoopTop
  /\ UNCHANGED <<tick_count, data_countdown, forecast_countdown, workerVars,
                 tick_running, pubVars, appVars, lpc, cancel_requested, beats,
                 observed, tick_cache0, tick_time0, errors_before,
                 beat_outcome, beat_refresh, failed_step,
                 netVars, svcVars>>

\* lines 91-93 and 106: CancelledError arrives at an await inside the try (the
\* heartbeat sleep or an executor future): break, tick_running = False, the
\* task is over.  A worker thread that is executing is not stopped: its future
\* is cancelled and it runs on with nobody awaiting it.
TickerCancelled ==
  /\ tpc \in {"sleep", "await_refresh", "await_recompute"}
  /\ cancel_requested
  /\ cancel_requested' = FALSE
  /\ tick_running' = FALSE
  /\ tpc' = "done"
  /\ wk_awaited' = "nobody"
  /\ wk_result' = "none"
  /\ UNCHANGED <<loopVars, wpc, wk_engine, wk_horizons, wk_run, runs, pubVars,
                 appVars, lpc, beats, observed, histVars, netVars, svcVars>>

\* lines 101 and 104: CancelledError arrives at a sleep inside the except
\* clause: no clause catches it there, it ends the task, line 106 is not run
TickerCancelledInHandler ==
  /\ tpc \in {"backoff", "cooldown"}
  /\ cancel_requested
  /\ cancel_requested' = FALSE
  /\ tpc' = "done"
  /\ UNCHANGED <<loopVars, workerVars, tick_running, pubVars, appVars, lpc,
                 beats, observed, histVars, netVars, svcVars>>

\* the task is cancelled before its first step: its body never runs
TickerCancelledUnstarted ==
  /\ tpc = "new"
  /\ cancel_requested
  /\ cancel_requested' = FALSE
  /\ tpc' = "done"
  /\ UNCHANGED <<loopVars, workerVars, tick_running, pubVars, appVars, lpc,
                 beats, observed, histVars, netVars, svcVars>>

\* ------------------------------------------------ readers (api/routes.py)
\* routes.py lines 101, 199, 352: result = ticker.cached_forecast, in a
\* request thread, while the application serves
ReadForecast ==
  /\ lpc \in {"serving", "await_task"}
  /\ observed' = <<cached_forecast>>
  /\ UNCHANGED <<loopVars, workerVars, tick_running, pubVars, appVars, lpc,
                 tpc, cancel_requested, beats, histVars, netVars, svcVars>>

\* routes.py lines 124-135: the body GET /tick answers with, read from the
\* module state of api/ticker.py at the moment of the request
TickStatus ==
  [tick_count |-> tick_count,
   last_data_refresh |-> last_data_refresh,
   last_forecast_time |-> last_forecast_time,
   ticker_active |-> tick_running,
   consecutive_errors |-> tick_errors,
   data_refresh_interval_s |-> DATA_REFRESH_INTERVAL,
   forecast_recompute_interval_s |-> FORECAST_RECOMPUTE_INTERVAL]

\* --------------------------------------------- alerts, backtest: constants
\* core/alerts.py lines 21-23
ALERT_STABILITY_THRESHOLD == "stability_threshold"
ALERT_PAYLOAD_CHANGE == "payload_change"
ALERT_HUB_SHIFT == "hub_shift"

\* alerts.py line 189: self.triggered[-50:]
KeptTriggered == 50

\* backtest.py line 44: self.history[-100:]
KeptResults == 100

\* A storage file that does not exist (os.path.exists is False).
NoFile == [state |-> "absent", content |-> << >>]

\* No call has been made on the object.
NoCall == [op |-> "none"]

\* _alert_manager is None (alerts.py line 212): no AlertManager exists.
AlertNone ==
  /\ apc = "none"
  /\ alerts = << >>
  /\ triggered = << >>
  /\ alerts_file = NoFile
  /\ uuids = 0
  /\ forecast_data = [stability |-> 0, payload_reduction |-> 0]
  /\ alert_call = NoCall
  /\ fired_log = << >>
  /\ cleared = FALSE
  /\ fire_limit = 0

\* No BacktestEngine exists.
BacktestNone ==
  /\ bpc = "none"
  /\ history = << >>
  /\ backtest_file = NoFile
  /\ feed = [horizon |-> 0, predictions |-> << >>]
  /\ bt_call = NoCall
  /\ stored = 0
  /\ store_limit = 0

\* No call of _build_obligations is in progress.
OblIdle ==
  /\ opc = "idle"
  /\ node_scores = [n \in Nodes |-> 0]
  /\ base_obligations = [p \in Pairs |-> 0]
  /\ obligations = [p \in Pairs |-> 0]

\* What get_systemic_hubs returns, before any call.
NoHubs == [centrality |-> [n \in Nodes |-> 0], stability_limit |-> 0]

\* No call of get_systemic_hubs is modelled.
HubIdle ==
  /\ hpc = "idle"
  /\ risk_matrix = << >>
  /\ hubs = NoHubs
  /\ hubs_before = NoHubs
  /\ hubs_calls = 0

\* A tensor entry: a finite number, NaN, or an infinity with its sign.
Fin(v) == [kind |-> "finite", v |-> v]
NaN == [kind |-> "nan", v |-> 0]
PosInf == [kind |-> "inf", v |-> 1]
NegInf == [kind |-> "inf", v |-> -1]

\* No forecast run is modelled.
RunIdle ==
  /\ rpc = "idle"
  /\ liquidity = << >>
  /\ run_base = << >>
  /\ run_k = 1
  /\ pred_O = << >>
  /\ risk_adj = "none"
  /\ run_horizons = << >>
  /\ run_cache = << >>
  /\ cache_before = << >>
  /\ jacobians = 0

EngineIdle == HubIdle /\ RunIdle

\* The callers have done nothing yet; the storage fails at most f writes.
Callers(f) ==
  /\ fail_limit = f
  /\ rule_ops = 0
  /\ actual_ops = 0
  /\ env_changes = 0
  /\ restarts = 0
  /\ write_failures = 0

\* No call of minimize_payload is in progress.
NetIdle ==
  /\ predicted_trades = [p \in Pairs |-> 0]
  /\ centrality_scores = [n \in Nodes |-> 0]
  /\ G = << >>
  /\ cycles = {}
  /\ initial_volume = 0
  /\ final_volume = 0
  /\ optimized_matrix = [p \in Pairs |-> 0]
  /\ npc = "idle"
  /\ napply = 1
  /\ pruned_residue = 0

Init == SchedInit /\ NetIdle /\ AlertNone /\ BacktestNone /\ Callers(0) /\ EngineIdle /\ OblIdle

Next ==
  \/ LifespanStartup
  \/ LifespanRefreshed
  \/ LifespanRecomputed
  \/ LifespanStartupError
  \/ Shutdown
  \/ LifespanStopped
  \/ RefreshLoad
  \/ RefreshEngine
  \/ RefreshStamp
  \/ RecomputeCall
  \/ RecomputeHorizon
  \/ RecomputePublish
  \/ RecomputeStamp
  \/ TickerStart
  \/ Heartbeat
  \/ RefreshReturned
  \/ RecomputeReturned
  \/ WorkerRaised
  \/ BackoffOver
  \/ CooldownOver
  \/ TickerCancelled
  \/ TickerCancelledInHandler
  \/ TickerCancelledUnstarted
  \/ ReadForecast

Spec == Init /\ [][Next]_vars

\* ------------------------------------------------- minimize_payload steps
NetInit ==
  /\ predicted_trades \in SmallMatrices \cup ScenarioMatrices
  /\ centrality_scores \in [Nodes -> {0, MaxC}]
  /\ G = << >>
  /\ cycles = {}
  /\ initial_volume = 0
  /\ final_volume = 0
  /\ optimized_matrix = [p \in Pairs |-> 0]
  /\ npc = "call"
  /\ napply = 1
  /\ pruned_residue = 0
  /\ SchedInit
  /\ AlertNone /\ BacktestNone /\ Callers(0) /\ EngineIdle /\ OblIdle

\* lines 35-43 on the matrix M: build the graph, take its volume, enumerate
\* the cycles (their sorted order is taken cycle by cycle, see NextCycles)
Enter(M) ==
  /\ G' = DiGraph(M)
  /\ initial_volume' = Size(DiGraph(M))
  /\ cycles' = SimpleCycles(DiGraph(M))
  /\ pruned_residue' = 0
  /\ npc' = "loop"

\* minimize_payload(predicted_trades, centrality_scores) is called
MinimizePayloadBegin ==
  /\ npc = "call"
  /\ Enter(predicted_trades)
  /\ UNCHANGED <<predicted_trades, centrality_scores, final_volume,
                 optimized_matrix, napply, schedVars, svcVars>>

\* lines 45-64: one iteration of the loop over the sorted cycles
CancelCycle ==
  /\ npc = "loop"
  /\ \E c \in NextCycles(centrality_scores, cycles) :
       /\ G' = CancelOne(G, c)
       /\ cycles' = cycles \ {c}
       /\ pruned_residue' = pruned_residue + PrunedResidue(G, c)
  /\ UNCHANGED <<predicted_trades, centrality_scores, initial_volume,
                 final_volume, optimized_matrix, npc, napply, schedVars, svcVars>>

\* lines 69-73: the loop is over; total the volume and rebuild the matrix
MinimizePayloadReturn ==
  /\ npc = "loop"
  /\ cycles = {}
  /\ final_volume' = Size(G)
  /\ optimized_matrix' = ToNumpyArray(G)
  /\ npc' = "done"
  /\ UNCHANGED <<predicted_trades, centrality_scores, G, cycles,
                 initial_volume, napply, pruned_residue, schedVars, svcVars>>

\* minimize_payload is called again, on the matrix it returned and with the
\* same centrality vector
Reapply ==
  /\ npc = "done"
  /\ napply = 1
  /\ predicted_trades' = optimized_matrix
  /\ Enter(optimized_matrix)
  /\ napply' = 2
  /\ UNCHANGED <<centrality_scores, final_volume, optimized_matrix, schedVars, svcVars>>

NetNext ==
  \/ MinimizePayloadBegin
  \/ CancelCycle
  \/ MinimizePayloadReturn
  \/ Reapply

NetSpec == NetInit /\ [][NetNext]_vars

\* ------------------------------------------------------ storage (json files)
\* How an open(path, "w") + json.dump can end: the file is written whole;
\* open() raised and the file is as it was; or the file was truncated by
\* open() and the dump raised before it was complete.
WriteOutcomes == {"ok", "unopened", "torn"}

\* The outcomes the next write can have.
WritesNow ==
  IF write_failures < fail_limit THEN WriteOutcomes ELSE {"ok"}

\* json.dump of a list of dicts of str, bool, number and None values, which
\* json.load reads back value for value: the content is the list's value at
\* the time of the dump.
WriteFile(f, content, w) ==
  CASE w = "ok" -> [state |-> "written", content |-> content]
    [] w = "unopened" -> f
    [] w = "torn" -> [state |-> "torn", content |-> << >>]

\* alerts.py line 67 and backtest.py line 45: "except Exception" takes what
\* the write raises; TRUE would be the exception leaving the method
SaveRaisesUncaught(w) == w # "ok"

SaveRaises(w) == FALSE

\* s[-n:]
KeepLast(s, n) == IF Len(s) <= n THEN s ELSE SubSeq(s, Len(s) - n + 1, Len(s))

\* ------------------------------------------------ AlertManager (alerts.py)
\* The requests a caller passes to create_alert: an inert rule, a disabled
\* rule, and the two kinds of the default rules with each other's threshold
\* (lines 47, 56).
CreateRequests ==
  { [type |-> ALERT_HUB_SHIFT, threshold |-> 1, enabled |-> TRUE],
    [type |-> ALERT_STABILITY_THRESHOLD, threshold |-> 1, enabled |-> FALSE],
    [type |-> ALERT_STABILITY_THRESHOLD, threshold |-> 20, enabled |-> TRUE],
    [type |-> ALERT_PAYLOAD_CHANGE, threshold |-> 1, enabled |-> TRUE] }

\* The snapshot fields of routes.py lines 357-361 (net_load is never read):
\* a stressed snapshot, with stability on the default threshold 1.0 and the
\* payload reduction under the default threshold 20.0, and a calm one, with
\* stability 0 and the payload reduction on the threshold.
Snapshots ==
  { [stability |-> 1, payload_reduction |-> 10],
    [stability |-> 0, payload_reduction |-> 20] }

\* The update dicts a caller passes to update_alert: disable; retype and
\* change the threshold; keys that line 132 skips ("id", and a key no alert has).
Updates ==
  { [enabled |-> FALSE],
    [type |-> ALERT_HUB_SHIFT, threshold |-> 20],
    [id |-> 0, severity |-> 3] }

\* lines 39-60: the two default rules, with the next two identifiers of uuid4.
\* name, description and created_at are carried like threshold and left out.
DefaultAlerts(n) ==
  << [id |-> n + 1, type |-> ALERT_STABILITY_THRESHOLD, threshold |-> 1,
      enabled |-> TRUE],
     [id |-> n + 2, type |-> ALERT_PAYLOAD_CHANGE, threshold |-> 20,
      enabled |-> TRUE] >>

\* lines 29-37: _load_alerts
LoadAlerts(f, n) ==
  CASE f.state = "absent" -> DefaultAlerts(n)
    [] f.state = "torn" -> << >>
    [] f.state = "written" -> f.content

\* lines 62-68: _save_alerts
SaveAlerts(f, as, w) == WriteFile(f, as, w)

\* line 164 with > for >=
StabilityFiresStrict(stability, threshold) == stability > threshold

\* line 164
StabilityFires(stability, threshold) == stability >= threshold

\* line 170
PayloadFires(reduction, threshold) == reduction < threshold

\* lines 174-176 with a trigger in place of pass
HubShiftFiresAlways(fd, threshold) == TRUE

\* lines 174-176: pass
HubShiftFires(fd, threshold) == FALSE

\* lines 156-176: is_triggered for one alert
IsTriggered(alert, fd) ==
  /\ alert.enabled
  /\ CASE alert.type = ALERT_STABILITY_THRESHOLD ->
            StabilityFires(fd.stability, alert.threshold)
       [] alert.type = ALERT_PAYLOAD_CHANGE ->
            PayloadFires(fd.payload_reduction, alert.threshold)
       [] alert.type = ALERT_HUB_SHIFT -> HubShiftFires(fd, alert.threshold)
       [] OTHER -> FALSE

\* line 183: forecast_data.get("stability") or forecast_data.get("payload_reduction")
CurrentValue(fd) ==
  IF fd.stability # 0 THEN fd.stability ELSE fd.payload_reduction

\* lines 166, 172: the field and value the message names
Message(alert, fd) ==
  IF alert.type = ALERT_STABILITY_THRESHOLD
  THEN <<"Stability index", fd.stability, alert.threshold>>
  ELSE <<"Payload reduction", fd.payload_reduction, alert.threshold>>

\* lines 179-184: the copy of the alert with the three added keys
TriggeredAlert(alert, fd, now) ==
  [id |-> alert.id, type |-> alert.type, threshold |-> alert.threshold,
   enabled |-> alert.enabled, triggered_at |-> now,
   message |-> Message(alert, fd), current_value |-> CurrentValue(fd)]

\* lines 152-186: the list triggered that the loop over self.alerts builds
RECURSIVE CheckLoop(_, _, _)
CheckLoop(as, fd, now) ==
  IF as = << >> THEN << >>
  ELSE (IF IsTriggered(Head(as), fd)
        THEN <<TriggeredAlert(Head(as), fd, now)>> ELSE << >>)
       \o CheckLoop(Tail(as), fd, now)

\* line 189 keeping the first 50 instead of the last
LastTriggeredOldest(s) == SubSeq(s, 1, IF Len(s) <= KeptTriggered THEN Len(s) ELSE KeptTriggered)

\* line 189
LastTriggered(s) == KeepLast(s, KeptTriggered)

\* lines 131-133: the updates applied to one alert
ApplyUpdates(alert, updates) ==
  [k \in DOMAIN alert |->
     IF k \in DOMAIN updates /\ k # "id" THEN updates[k] ELSE alert[k]]

\* the first index whose alert has this id, or 0
IndexOfId(as, id) ==
  IF \E i \in 1 .. Len(as) : as[i].id = id
  THEN CHOOSE i \in 1 .. Len(as) :
         as[i].id = id /\ \A j \in 1 .. i - 1 : as[j].id # id
  ELSE 0

\* self.alerts.pop(i)
Pop(s, i) == SubSeq(s, 1, i - 1) \o SubSeq(s, i + 1, Len(s))

\* ids a caller passes: those of the alerts held, and one that none has
KnownIds == {alerts[i].id : i \in 1 .. Len(alerts)} \cup {0}

\* lines 25-27 on a first start: no file, so the default rules
AlertInit ==
  /\ apc = "up"
  /\ alerts = DefaultAlerts(0)
  /\ triggered = << >>
  /\ alerts_file = NoFile
  /\ uuids = 2
  /\ forecast_data \in Snapshots
  /\ alert_call = NoCall
  /\ fired_log = << >>
  /\ cleared = FALSE

\* lines 70-102: create_alert
CreateAlert ==
  /\ apc = "up"
  /\ rule_ops < MaxRuleOps
  /\ \E request \in CreateRequests, w \in WritesNow :
       LET alert == [id |-> uuids + 1, type |-> request.type,
                     threshold |-> request.threshold,
                     enabled |-> request.enabled]
       IN /\ alerts' = Append(alerts, alert)
          /\ alerts_file' = SaveAlerts(alerts_file, alerts', w)
          /\ alert_call' = [op |-> "create_alert", before |-> alerts,
                            arg |-> request,
                            ret |-> alert, raised |-> SaveRaises(w),
                            wrote |-> w]
          /\ write_failures' = write_failures + (IF w = "ok" THEN 0 ELSE 1)
  /\ uuids' = uuids + 1
  /\ rule_ops' = rule_ops + 1
  /\ UNCHANGED <<apc, fire_limit, fail_limit, triggered, forecast_data, fired_log, cleared,
                 actual_ops, env_changes, restarts, backtestVars, oblVars, engVars,
                 netVars, schedVars>>

\* lines 104-116: delete_alert
DeleteAlert ==
  /\ apc = "up"
  /\ rule_ops < MaxRuleOps
  /\ \E id \in KnownIds :
       LET i == IndexOfId(alerts, id)
       IN \/ /\ i # 0
             /\ \E w \in WritesNow :
                  /\ alerts' = Pop(alerts, i)
                  /\ alerts_file' = SaveAlerts(alerts_file, alerts', w)
                  /\ alert_call' = [op |-> "delete_alert", before |-> alerts,
                                    arg |-> id, ret |-> TRUE,
                                    raised |-> SaveRaises(w), wrote |-> w]
                  /\ write_failures' = write_failures + (IF w = "ok" THEN 0 ELSE 1)
          \/ /\ i = 0
             /\ alert_call' = [op |-> "delete_alert", before |-> alerts,
                               arg |-> id, ret |-> FALSE, raised |-> FALSE,
                               wrote |-> "none"]
             /\ UNCHANGED <<alerts, alerts_file, write_failures>>
  /\ rule_ops' = rule_ops + 1
  /\ UNCHANGED <<apc, fire_limit, fail_limit, triggered, uuids, forecast_data, fired_log, cleared,
                 actual_ops, env_changes, restarts, backtestVars, oblVars, engVars,
                 netVars, schedVars>>

\* lines 118-136: update_alert; the returned dict is the updated alert, and
\* a miss returns None (ret is << >>)
UpdateAlert ==
  /\ apc = "up"
  /\ rule_ops < MaxRuleOps
  /\ \E id \in KnownIds, updates \in Updates :
       LET i == IndexOfId(alerts, id)
       IN \/ /\ i # 0
             /\ \E w \in WritesNow :
                  /\ alerts' = [alerts EXCEPT
                                  ![i] = ApplyUpdates(alerts[i], updates)]
                  /\ alerts_file' = SaveAlerts(alerts_file, alerts', w)
                  /\ alert_call' = [op |-> "update_alert", before |-> alerts,
                                    arg |-> <<id, updates>>,
                                    ret |-> <<alerts'[i]>>,
                                    raised |-> SaveRaises(w), wrote |-> w]
                  /\ write_failures' = write_failures + (IF w = "ok" THEN 0 ELSE 1)
          \/ /\ i = 0
             /\ alert_call' = [op |-> "update_alert", before |-> alerts,
                               arg |-> <<id, updates>>, ret |-> << >>,
                               raised |-> FALSE, wrote |-> "none"]
             /\ UNCHANGED <<alerts, alerts_file, write_failures>>
  /\ rule_ops' = rule_ops + 1
  /\ UNCHANGED <<apc, fire_limit, fail_limit, triggered, uuids, forecast_data, fired_log, cleared,
                 actual_ops, env_changes, restarts, backtestVars, oblVars, engVars,
                 netVars, schedVars>>

\* lines 142-190: check_alerts on the snapshot of routes.py lines 357-365.
\* datetime.now() is a logical clock: the number of alerts fired before the
\* call, plus one.
CheckAlerts ==
  /\ apc = "up"
  /\ Len(fired_log) < fire_limit
  /\ LET new == CheckLoop(alerts, forecast_data, Len(fired_log) + 1)
     IN /\ triggered' = LastTriggered(triggered \o new)
        /\ fired_log' = fired_log \o new
        /\ alert_call' = [op |-> "check_alerts", before |-> alerts,
                          arg |-> forecast_data, ret |-> new,
                          raised |-> FALSE, wrote |-> "none"]
  /\ UNCHANGED <<apc, fire_limit, alerts, alerts_file, uuids, forecast_data, cleared,
                 callerVars, backtestVars, oblVars, engVars, netVars, schedVars>>

\* lines 206-208: clear_triggered
ClearTriggered ==
  /\ apc = "up"
  /\ triggered # << >>
  /\ triggered' = << >>
  /\ fired_log' = << >>
  /\ cleared' = TRUE
  /\ alert_call' = [op |-> "clear_triggered"]
  /\ UNCHANGED <<apc, fire_limit, alerts, alerts_file, uuids, forecast_data, callerVars,
                 backtestVars, oblVars, engVars, netVars, schedVars>>

\* the ticker publishes a forecast whose first horizon has other figures
NewSnapshot ==
  /\ apc = "up"
  /\ env_changes < MaxEnvChanges
  /\ forecast_data' \in Snapshots \ {forecast_data}
  /\ env_changes' = env_changes + 1
  /\ UNCHANGED <<apc, fire_limit, fail_limit, alerts, triggered, alerts_file, uuids, alert_call,
                 fired_log, cleared, rule_ops, actual_ops, restarts,
                 write_failures, backtestVars, oblVars, engVars, netVars, schedVars>>

\* the process ends and a new one constructs its AlertManager (lines 25-27,
\* 215-220): the rules are loaded, the triggered list is empty
AlertRestart ==
  /\ apc = "up"
  /\ restarts < MaxRestarts
  /\ alerts' = LoadAlerts(alerts_file, uuids)
  /\ uuids' = IF alerts_file.state = "absent" THEN uuids + 2 ELSE uuids
  /\ triggered' = << >>
  /\ fired_log' = << >>
  /\ cleared' = FALSE
  /\ alert_call' = [op |-> "restart", before |-> alerts]
  /\ restarts' = restarts + 1
  /\ UNCHANGED <<apc, fire_limit, fail_limit, alerts_file, forecast_data, rule_ops, actual_ops,
                 env_changes, write_failures, backtestVars, oblVars, engVars, netVars,
                 schedVars>>

AlertNext ==
  \/ CreateAlert
  \/ DeleteAlert
  \/ UpdateAlert
  \/ CheckAlerts
  \/ ClearTriggered
  \/ NewSnapshot
  \/ AlertRestart

\* The AlertManager alone from a first start, its callers changing the rules
\* and checking until the triggered list has overflowed; no write fails.
RingInit ==
  /\ AlertInit
  /\ fire_limit = MaxFired
  /\ BacktestNone /\ Callers(0) /\ EngineIdle /\ OblIdle /\ SchedInit /\ NetIdle

RingNext ==
  \/ CreateAlert
  \/ DeleteAlert
  \/ UpdateAlert
  \/ CheckAlerts
  \/ ClearTriggered

RingSpec == RingInit /\ [][RingNext]_vars

\* --------------------------------------------- BacktestEngine (backtest.py)
\* Predictions and actuals are dicts from tickers to scores, here whole numbers.
PredictionMaps == { [JPM |-> 1, GS |-> -1], [JPM |-> 2] }

ActualMaps == { [JPM |-> 1, GS |-> 1], [GS |-> -1] }

\* What a caller stores: the horizon and predictions of the current forecast.
Feeds ==
  { [horizon |-> 1, predictions |-> [JPM |-> 1, GS |-> -1]],
    [horizon |-> HORIZONS, predictions |-> [JPM |-> 2]] }

\* The dates a caller passes to update_actuals, as values of the clock that
\* stamps the entries.
TargetDates == {1, 2}

Abs(x) == IF x < 0 THEN -x ELSE x

\* np.sign
Sign(x) == IF x < 0 THEN -1 ELSE IF x > 0 THEN 1 ELSE 0

\* lines 104-108 for one or two common tickers: np.std is 0 for one value and
\* for two equal values; two points with both spreads non-zero correlate by
\* +1 or -1.  In units of 1e-4 (line 113).
Correlation(predictions, actuals, common) ==
  IF Cardinality(common) = 2
  THEN LET a == CHOOSE t \in common : TRUE
           b == CHOOSE t \in common : t # a
           dp == predictions[a] - predictions[b]
           da == actuals[a] - actuals[b]
       IN IF dp # 0 /\ da # 0 THEN Sign(dp) * Sign(da) * 10000 ELSE 0
  ELSE 0

\* lines 82-114: _compute_metrics.  A metric is << >> (None) or <<value>>;
\* mae in units of 1e-6, the other two in units of 1e-4 (lines 111-113).
ComputeMetrics(predictions, actuals) ==
  LET common == (DOMAIN predictions) \cap (DOMAIN actuals)
      n == Cardinality(common)
      err == [t \in common |-> Abs(predictions[t] - actuals[t])]
      hit == [t \in common |->
                IF Sign(predictions[t]) = Sign(actuals[t]) THEN 1 ELSE 0]
  IN IF common = {}
     THEN [mae |-> << >>, directional_accuracy |-> << >>,
           correlation |-> << >>]
     ELSE [mae |-> <<(SumOver(err, common) * 1000000) \div n>>,
           directional_accuracy |-> <<(SumOver(hit, common) * 10000) \div n>>,
           correlation |-> <<Correlation(predictions, actuals, common)>>]

\* lines 30-38: _load_history
LoadHistory(f) ==
  CASE f.state = "absent" -> << >>
    [] f.state = "torn" -> << >>
    [] f.state = "written" -> f.content

\* line 44 dumping all of self.history
DumpedHistoryAll(h) == h

\* line 44: self.history[-100:]
DumpedHistory(h) == KeepLast(h, KeptResults)

\* lines 40-46: _save_history
SaveHistory(f, h, w) == WriteFile(f, DumpedHistory(h), w)

\* lines 75-76 without the test of line 76: the first entry, pending or not
FirstPendingAny(h) == IF h = << >> THEN 0 ELSE 1

\* lines 75-76: the first entry whose "actual" is None, or 0
FirstPending(h) ==
  IF \E i \in 1 .. Len(h) : h[i].actual = << >>
  THEN CHOOSE i \in 1 .. Len(h) :
         h[i].actual = << >> /\ \A j \in 1 .. i - 1 : h[j].actual # << >>
  ELSE 0

\* lines 20-28 on a first start: no file, so an empty history
BacktestInit ==
  /\ bpc = "up"
  /\ history = << >>
  /\ backtest_file = NoFile
  /\ feed \in Feeds
  /\ bt_call = NoCall
  /\ stored = 0

\* lines 48-65: store_prediction, timestamp left to its default: now() is a
\* logical clock, the number of store_prediction calls so far, plus one
StorePrediction ==
  /\ bpc = "up"
  /\ stored < store_limit
  /\ \E w \in WritesNow :
       LET entry == [timestamp |-> stored + 1, horizon |-> feed.horizon,
                     predictions |-> feed.predictions,
                     actual |-> << >>, metrics |-> << >>]
       IN /\ history' = Append(history, entry)
          /\ backtest_file' = SaveHistory(backtest_file, history', w)
          /\ bt_call' = [op |-> "store_prediction", before |-> history,
                         arg |-> feed, raised |-> SaveRaises(w), wrote |-> w]
          /\ write_failures' = write_failures + (IF w = "ok" THEN 0 ELSE 1)
  /\ stored' = stored + 1
  /\ UNCHANGED <<bpc, store_limit, fail_limit, feed, rule_ops, actual_ops, env_changes,
                 restarts, alertVars, oblVars, engVars, netVars, schedVars>>

\* lines 67-80: update_actuals
UpdateActuals ==
  /\ bpc = "up"
  /\ actual_ops < MaxActualOps
  /\ \E target_date \in TargetDates, actuals \in ActualMaps :
       LET i == FirstPending(history)
       IN \/ /\ i # 0
             /\ \E w \in WritesNow :
                  /\ history' =
                       [history EXCEPT ![i] =
                          [@ EXCEPT !.actual = <<actuals>>,
                                    !.metrics =
                                      <<ComputeMetrics(
                                          history[i].predictions, actuals)>>]]
                  /\ backtest_file' = SaveHistory(backtest_file, history', w)
                  /\ bt_call' = [op |-> "update_actuals", before |-> history,
                                 arg |-> [target_date |-> target_date,
                                          actuals |-> actuals],
                                 raised |-> SaveRaises(w), wrote |-> w]
                  /\ write_failures' =
                       write_failures + (IF w = "ok" THEN 0 ELSE 1)
          \/ /\ i = 0
             /\ bt_call' = [op |-> "update_actuals", before |-> history,
                            arg |-> [target_date |-> target_date,
                                     actuals |-> actuals],
                            raised |-> FALSE, wrote |-> "none"]
             /\ UNCHANGED <<history, backtest_file, write_failures>>
  /\ actual_ops' = actual_ops + 1
  /\ UNCHANGED <<bpc, store_limit, fail_limit, feed, stored, rule_ops, env_changes,
                 restarts, alertVars, oblVars, engVars, netVars, schedVars>>

\* the forecast the caller stores from has been recomputed
NewFeed ==
  /\ bpc = "up"
  /\ env_changes < MaxEnvChanges
  /\ feed' \in Feeds \ {feed}
  /\ env_changes' = env_changes + 1
  /\ UNCHANGED <<bpc, store_limit, fail_limit, history, backtest_file, bt_call, stored,
                 rule_ops, actual_ops, restarts, write_failures, alertVars,
                 oblVars, engVars, netVars, schedVars>>

\* the process ends and a new one constructs a BacktestEngine (lines 20-28)
BacktestRestart ==
  /\ bpc = "up"
  /\ restarts < MaxRestarts
  /\ history' = LoadHistory(backtest_file)
  /\ bt_call' = [op |-> "restart", before |-> history]
  /\ restarts' = restarts + 1
  /\ UNCHANGED <<bpc, store_limit, fail_limit, backtest_file, feed, stored, rule_ops,
                 actual_ops, env_changes, write_failures, alertVars, oblVars, engVars,
                 netVars, schedVars>>

BacktestNext ==
  \/ StorePrediction
  \/ UpdateActuals
  \/ NewFeed
  \/ BacktestRestart

\* The BacktestEngine alone from a first start, its callers storing
\* predictions until the file no longer holds the whole history; no write
\* fails.
KeepInit ==
  /\ BacktestInit
  /\ store_limit = MaxStored
  /\ AlertNone /\ Callers(0) /\ EngineIdle /\ OblIdle /\ SchedInit /\ NetIdle

KeepNext ==
  \/ StorePrediction
  \/ UpdateActuals
  \/ BacktestRestart

KeepSpec == KeepInit /\ [][KeepNext]_vars

\* One of the two objects from a first start, for a few alerts or entries.
StoreInit ==
  /\ \/ AlertInit /\ fire_limit = MaxFiredShort /\ BacktestNone
     \/ BacktestInit /\ store_limit = MaxStoredShort /\ AlertNone
  /\ Callers(MaxWriteFailures) /\ EngineIdle /\ OblIdle /\ SchedInit /\ NetIdle

StoreNext == AlertNext \/ BacktestNext

StoreSpec == StoreInit /\ [][StoreNext]_vars

\* ------------------------ _build_obligations (forecast_engine.py 188-200)
\* Scores and multipliers are in tenths: node_scores holds 100 * s[i] in
\* tenths, so the clamp bounds -0.9 and 2.0 are -9 and 20 and "1 +" is "10 +".
StressScores == {-15, -9, 0, 25}

\* Base exposure matrices: entries 0 .. MaxB, zero diagonal.
Exposures == {ZeroDiag(f) : f \in [Pairs -> 0 .. MaxB]}

\* torch.clamp(x, min=lo, max=hi)
Clamp(x, lo, hi) == IF x < lo THEN lo ELSE IF x > hi THEN hi ELSE x

\* line 195 without min=-0.9
AmplifiedNoFloor(score) == IF score > 20 THEN 20 ELSE score

\* line 195
Amplified(score) == Clamp(score, -9, 20)

\* lines 194-200: the returned tensor, in tenths
BuildObligations(scores, base) ==
  [p \in Pairs |->
     IF p[1] = p[2] THEN 0
     ELSE LET scaled == base[p] * (10 + Amplified(scores[p[1]]))
          IN IF scaled < 0 THEN 0 ELSE scaled]

OblInit ==
  /\ opc = "call"
  /\ node_scores \in [Nodes -> StressScores]
  /\ base_obligations \in Exposures
  /\ obligations = [p \in Pairs |-> 0]
  /\ AlertNone /\ BacktestNone /\ Callers(0) /\ EngineIdle /\ SchedInit /\ NetIdle

\* lines 189-200: one call; base_obligations is read, the result is a new tensor
BuildObligationsCall ==
  /\ opc = "call"
  /\ obligations' = BuildObligations(node_scores, base_obligations)
  /\ opc' = "done"
  /\ UNCHANGED <<node_scores, base_obligations, alertVars, backtestVars,
                 callerVars, engVars, netVars, schedVars>>

OblNext == BuildObligationsCall

OblSpec == OblInit /\ [][OblNext]_vars

\* ====================== get_systemic_hubs (core/optimize.py lines 16-28)
\* The diagonal matrix with the entries d.
Diagonal(d) == [p \in Pairs |-> IF p[1] = p[2] THEN d[p[1]] ELSE 0]

\* Risk matrices of which the eigen-decomposition is known in closed form:
\* the diagonal ones, entries -MaxD .. MaxD.
DiagonalMatrices == {Diagonal(d) : d \in [Nodes -> -MaxD .. MaxD]}

\* line 21, np.linalg.eig on a diagonal matrix: the eigenvalues are the
\* diagonal entries in their order, the eigenvectors the unit vectors, as
\* the columns of the identity matrix.
Eigenvalues(M) == [n \in Nodes |-> M[<<n, n>>]]
Eigenvectors(M) == [p \in Pairs |-> IF p[1] = p[2] THEN 1 ELSE 0]

\* argmax returning the last index of the maximum
ArgMaxLast(v) ==
  CHOOSE i \in DOMAIN v :
    /\ \A j \in DOMAIN v : v[j] <= v[i]
    /\ \A j \in DOMAIN v : j > i => v[j] < v[i]

\* np.argmax: the first index of the maximum
ArgMax(v) ==
  CHOOSE i \in DOMAIN v :
    /\ \A j \in DOMAIN v : v[j] <= v[i]
    /\ \A j \in DOMAIN v : j < i => v[j] < v[i]

\* lines 21-28
GetSystemicHubs(M) ==
  LET eigenvalues == Eigenvalues(M)
      eigenvectors == Eigenvectors(M)
      idx == ArgMax([n \in Nodes |-> Abs(eigenvalues[n])])
  IN [centrality |-> [n \in Nodes |-> Abs(eigenvectors[<<n, idx>>])],
      stability_limit |-> MaxOf({Abs(eigenvalues[n]) : n \in Nodes})]

HubInit ==
  /\ hpc = "call"
  /\ risk_matrix \in DiagonalMatrices
  /\ hubs = NoHubs
  /\ hubs_before = NoHubs
  /\ hubs_calls = 0
  /\ RunIdle
  /\ AlertNone /\ BacktestNone /\ Callers(0) /\ OblIdle /\ SchedInit /\ NetIdle

\* get_systemic_hubs(risk_matrix) is called
GetSystemicHubsCall ==
  /\ hpc = "call"
  /\ hubs' = GetSystemicHubs(risk_matrix)
  /\ hubs_calls' = 1
  /\ hpc' = "done"
  /\ UNCHANGED <<risk_matrix, hubs_before, alertVars, backtestVars, callerVars,
                 oblVars, runVars, netVars, schedVars>>

\* get_systemic_hubs is called again on the same matrix
GetSystemicHubsAgain ==
  /\ hpc = "done"
  /\ hubs_calls = 1
  /\ hubs_before' = hubs
  /\ hubs' = GetSystemicHubs(risk_matrix)
  /\ hubs_calls' = 2
  /\ UNCHANGED <<hpc, risk_matrix, alertVars, backtestVars, callerVars,
                 oblVars, runVars, netVars, schedVars>>

HubNext == GetSystemicHubsCall \/ GetSystemicHubsAgain

HubSpec == HubInit /\ [][HubNext]_vars

\* ================= run_forecast (core/forecast_engine.py lines 79-183)
IsFinite(x) == x.kind = "finite"

\* x * k for a finite k > 0: NaN stays NaN, an infinity keeps its sign
Times(x, k) == IF IsFinite(x) THEN Fin(x.v * k) ELSE x

\* torch.clamp(x, min=lo): NaN stays NaN, -inf becomes lo, +inf stays
ClampMin(x, lo) ==
  CASE x.kind = "nan" -> x
    [] x.kind = "inf" -> IF x.v < 0 THEN Fin(lo) ELSE x
    [] OTHER -> IF x.v < lo THEN Fin(lo) ELSE x

\* The node scores of a horizon: finite, here no stress predicted.
RunScores == [n \in Nodes |-> 0]

\* lines 194-200 on tensors that may hold non-finite entries, in tenths
BuildObligationsAny(scores, base) ==
  [p \in Pairs |->
     IF p[1] = p[2] THEN Fin(0)
     ELSE ClampMin(Times(base[p], 10 + Amplified(scores[p[1]])), 0)]

\* lines 202-218, _risk_jacobian, as far as finiteness goes.  Finite inputs
\* give a finite Jacobian.  A NaN anywhere reaches flow_score and its
\* gradient; an infinite obligation makes net / scale the quotient of two
\* infinities, NaN.  With finite obligations and an infinite liquidity the
\* sigmoid saturates and the backward pass multiplies 0 by an infinity in
\* the gradient of the division: what autograd returns then is not fixed by
\* the source, so either.
RiskJacobian(O, liq) ==
  IF (\A p \in Pairs : IsFinite(O[p])) /\ (\A n \in Nodes : IsFinite(liq[n]))
  THEN {"finite"}
  ELSE IF (\E p \in Pairs : ~IsFinite(O[p])) \/ (\E n \in Nodes : liq[n].kind = "nan")
  THEN {"nonfinite"}
  ELSE {"finite", "nonfinite"}

\* The entries of the two inputs, numbered: 0 .. 2 the liquidity of each
\* node, 3 .. 11 the base obligations row by row.
InputEntries == 0 .. (Cardinality(Nodes) + Cardinality(Pairs) - 1)
LiquidityEntry(n) == n
BaseEntry(p) == Cardinality(Nodes) * (p[1] + 1) + p[2]

\* The choices of at most MaxBad entries that are not finite, each with the
\* value it has instead.
BadChoices ==
  UNION {[S -> {NaN, PosInf, NegInf}] :
           S \in {T \in SUBSET InputEntries : Cardinality(T) <= MaxBad}}

\* The inputs the loader builds: liquidity 1, base obligations 1 off the
\* diagonal and 0 on it, but for the entries of bad.
LiquidityWith(bad) ==
  [n \in Nodes |->
     IF LiquidityEntry(n) \in DOMAIN bad THEN bad[LiquidityEntry(n)] ELSE Fin(1)]

BaseWith(bad) ==
  [p \in Pairs |->
     IF BaseEntry(p) \in DOMAIN bad THEN bad[BaseEntry(p)]
     ELSE IF p[1] = p[2] THEN Fin(0) ELSE Fin(1)]

\* A forecast result of k horizons.
RunResult(k) == <<[horizons |-> [i \in 1 .. k |-> i]]>>

\* lines 153-163: the inputs are built; the cache holds None or the result of
\* an earlier run
RunInit ==
  /\ rpc = "build"
  /\ \E bad \in BadChoices :
       /\ liquidity = LiquidityWith(bad)
       /\ run_base = BaseWith(bad)
  /\ run_k \in {1, HORIZONS}
  /\ pred_O = [p \in Pairs |-> Fin(0)]
  /\ risk_adj = "none"
  /\ run_horizons = << >>
  /\ run_cache \in {<< >>, RunResult(1), RunResult(HORIZONS)}
  /\ cache_before = run_cache
  /\ jacobians = 0
  /\ HubIdle
  /\ AlertNone /\ BacktestNone /\ Callers(0) /\ OblIdle /\ SchedInit /\ NetIdle

\* line 87: pred_O = self._build_obligations(node_scores, base_obligations)
AnalyseBuild ==
  /\ rpc = "build"
  /\ pred_O' = BuildObligationsAny(RunScores, run_base)
  /\ rpc' = "jacobian"
  /\ UNCHANGED <<liquidity, run_base, run_k, risk_adj, run_horizons, run_cache,
                 cache_before, jacobians, hubVars, alertVars, backtestVars,
                 callerVars, oblVars, netVars, schedVars>>

\* line 89: risk_adj = self._risk_jacobian(pred_O, liquidity)
AnalyseJacobian ==
  /\ rpc = "jacobian"
  /\ risk_adj' \in RiskJacobian(pred_O, liquidity)
  /\ jacobians' = jacobians + 1
  /\ rpc' = "hubs"
  /\ UNCHANGED <<liquidity, run_base, run_k, pred_O, run_horizons, run_cache,
                 cache_before, hubVars, alertVars, backtestVars, callerVars,
                 oblVars, netVars, schedVars>>

\* line 90 and optimize.py line 21: np.linalg.eig raises LinAlgError on a
\* matrix with a NaN or an infinity; the exception leaves _analyse_horizon,
\* run_forecast and recompute_forecast_sync (ticker.py line 49 not reached)
AnalyseHubs ==
  /\ rpc = "hubs"
  /\ rpc' = IF risk_adj = "nonfinite" THEN "raised" ELSE "netting"
  /\ UNCHANGED <<liquidity, run_base, run_k, pred_O, risk_adj, run_horizons,
                 run_cache, cache_before, jacobians, hubVars, alertVars,
                 backtestVars, callerVars, oblVars, netVars, schedVars>>

\* lines 92-139 and 165-172: the netting, the snapshot, horizons.append(snap)
AnalyseNetting ==
  /\ rpc = "netting"
  /\ run_horizons' = Append(run_horizons, Len(run_horizons) + 1)
  /\ rpc' = IF Len(run_horizons) + 1 = run_k THEN "publish" ELSE "build"
  /\ UNCHANGED <<liquidity, run_base, run_k, pred_O, risk_adj, run_cache,
                 cache_before, jacobians, hubVars, alertVars, backtestVars,
                 callerVars, oblVars, netVars, schedVars>>

\* lines 180-183 and ticker.py line 49: cached_forecast = the returned dict
RunPublish ==
  /\ rpc = "publish"
  /\ run_cache' = <<[horizons |-> run_horizons]>>
  /\ rpc' = "returned"
  /\ UNCHANGED <<liquidity, run_base, run_k, pred_O, risk_adj, run_horizons,
                 cache_before, jacobians, hubVars, alertVars, backtestVars,
                 callerVars, oblVars, netVars, schedVars>>

RunNext ==
  \/ AnalyseBuild
  \/ AnalyseJacobian
  \/ AnalyseHubs
  \/ AnalyseNetting
  \/ RunPublish

RunSpec == RunInit /\ [][RunNext]_vars


\* ======================================================== netting claims
\* The input is a valid ObligationMatrix: entries >= 0, zero diagonal.
ValidObligations(M) ==
  /\ \A p \in Pairs : M[p] >= 0
  /\ \A n \in Nodes : M[<<n, n>>] = 0

\* C1: for every valid obligation matrix and every centrality vector,
\* minimize_payload returns final_volume <= initial_volume and a netted matrix
\* whose entries are all >= 0; and after any number of cycle cancellations, in
\* any order of equal keys, the graph's volume is at most the initial volume
\* and no weight is negative.
C1_NetLoadBounded ==
  ValidObligations(predicted_trades) =>
    /\ npc = "loop" =>
         /\ Size(G) <= initial_volume
         /\ \A e \in DOMAIN G : G[e] >= 0
    /\ npc = "done" =>
         /\ final_volume <= initial_volume
         /\ \A p \in Pairs : optimized_matrix[p] >= 0

\* C1 witness: a first call has returned on a matrix with at least two cycles
\* and has reduced the volume, leaving some obligation in place.
C1_Witness ==
  /\ npc = "done"
  /\ napply = 1
  /\ Cardinality(SimpleCycles(DiGraph(predicted_trades))) >= 2
  /\ final_volume < initial_volume
  /\ final_volume > 0

\* The graph of M is exactly one simple cycle: every edge lies on it.
TheCycles(M) ==
  {c \in SimpleCycles(DiGraph(M)) : DOMAIN DiGraph(M) = CycleEdgeSet(c)}

SingleCycle(M) == TheCycles(M) # {}

TheCycle(M) == CHOOSE c \in TheCycles(M) : TRUE

\* The first call has returned and its input was exactly one simple cycle.
SingleCycleDone ==
  /\ npc = "done"
  /\ napply = 1
  /\ SingleCycle(predicted_trades)

\* spec section 8, first scenario: 10, 10, 10 gives raw_load = 30,
\* net_load = 0 and a payload reduction of 100%.
ScenarioEqual ==
  (npc = "done" /\ napply = 1 /\ predicted_trades = Triangle(10, 10, 10)) =>
    /\ initial_volume = 30 * ONE
    /\ final_volume = 0
    /\ PayloadReduction(initial_volume, final_volume) = 100
    /\ optimized_matrix = Triangle(0, 0, 0)

\* spec section 8, second scenario: 10, 5, 10 leaves A->B = 5, C->A = 5,
\* B->C removed, raw_load = 25, net_load = 10.
ScenarioBottleneck ==
  (npc = "done" /\ napply = 1 /\ predicted_trades = Triangle(10, 5, 10)) =>
    /\ initial_volume = 25 * ONE
    /\ final_volume = 10 * ONE
    /\ optimized_matrix = Triangle(5, 0, 5)

\* C2 as stated: when the graph is exactly one simple cycle of minimum weight
\* m and length L, every edge of weight m is removed, every edge left has its
\* weight less m, and net_load = raw_load - L*m; and the two scenarios of spec
\* section 8 come out as the spec gives them.
C2_Original ==
  /\ SingleCycleDone =>
       LET c == TheCycle(predicted_trades)
           m == MinVal(DiGraph(predicted_trades), c)
       IN /\ \A e \in CycleEdgeSet(c) :
               /\ predicted_trades[e] = m => optimized_matrix[e] = 0
               /\ optimized_matrix[e] # 0 =>
                    optimized_matrix[e] = predicted_trades[e] - m
          /\ final_volume = initial_volume - Len(c) * m
  /\ ScenarioEqual
  /\ ScenarioBottleneck

\* What an edge of weight w keeps when m is subtracted: nothing when the
\* remainder is within the 1e-5 pruning threshold.
Kept(w, m) == IF w - m <= EPS THEN 0 ELSE w - m

\* C2 as amended: when the graph is exactly one simple cycle of minimum weight
\* m and length L, every edge whose weight less m is at most 1e-5 is removed
\* (the edges of weight m among them), every other edge ends at its weight
\* less m, and net_load = raw_load - L*m less the remainders of the removed
\* edges, which is raw_load - L*m when no weight lies within 1e-5 above m;
\* and the two scenarios of spec section 8 come out as the spec gives them.
C2_SingleCycle ==
  /\ SingleCycleDone =>
       LET c == TheCycle(predicted_trades)
           es == CycleEdgeSet(c)
           m == MinVal(DiGraph(predicted_trades), c)
           pruned == {e \in es : predicted_trades[e] - m <= EPS}
           residue == [e \in pruned |-> predicted_trades[e] - m]
       IN /\ \A e \in es : optimized_matrix[e] = Kept(predicted_trades[e], m)
          /\ \A e \in es : predicted_trades[e] = m => optimized_matrix[e] = 0
          /\ final_volume =
               initial_volume - Len(c) * m - SumOver(residue, pruned)
          /\ (\A e \in es : predicted_trades[e] = m
                               \/ predicted_trades[e] - m > EPS)
               => final_volume = initial_volume - Len(c) * m
  /\ ScenarioEqual
  /\ ScenarioBottleneck

\* C2 witness: the bottleneck scenario has been netted, an edge surviving.
C2_Witness ==
  /\ SingleCycleDone
  /\ predicted_trades = Triangle(10, 5, 10)
  /\ optimized_matrix[<<0, 1>>] = 5 * ONE

Complete(r) ==
  /\ Len(r.horizons) >= 1
  /\ \A k \in 1 .. Len(r.horizons) :
       /\ r.horizons[k].horizon = k
       /\ r.horizons[k].of = Len(r.horizons)
       /\ r.horizons[k].run = r.run
       /\ r.horizons[k].data = r.data

\* C4: under any interleaving of the recompute with readers, the cached
\* forecast, and every value a reader read from it, is None or a complete
\* result of one single run_forecast call.
C4_CacheWhole ==
  /\ cached_forecast = NoForecast \/ Complete(cached_forecast)
  /\ \A i \in 1 .. Len(observed) :
       observed[i] = NoForecast \/ Complete(observed[i])

\* C4 witness: a reader holds a complete five-horizon result while the worker
\* is part-way through the horizons of a later run.
C4_Witness ==
  /\ Len(observed) = 1
  /\ observed[1] # NoForecast
  /\ Len(observed[1].horizons) = HORIZONS
  /\ wpc = "recompute_horizon"
  /\ Len(wk_horizons) \in 1 .. HORIZONS - 1
  /\ wk_run > observed[1].run

\* C5: when the recompute (or the refresh before it) raised in a heartbeat,
\* cached_forecast and last_forecast_time are what they were when the
\* heartbeat began, from the raise through the backoff.
C5_FailureKeepsCache ==
  (\/ tpc = "await_recompute" /\ wk_result = "error"
   \/ tpc \in {"backoff", "cooldown"})
    => /\ cached_forecast = tick_cache0
       /\ last_forecast_time = tick_time0

\* C5 witness: the ticker's recompute raised after two horizons or more, with
\* an earlier result in the cache.
C5_Witness ==
  /\ tpc = "await_recompute"
  /\ wk_result = "error"
  /\ Len(wk_horizons) >= 2
  /\ cached_forecast # NoForecast

\* C6: the ticker is in the long cooldown exactly when MAX_TICK_ERRORS
\* heartbeats in a row have failed (since a success or the last cooldown), and
\* never after fewer; in the cooldown no worker executes; and the cooldown,
\* unless cancelled, ends with tick_errors = 0 at the next heartbeat sleep.
C6_CooldownAfterMax ==
  /\ [](/\ tpc = "cooldown" => streak = MAX_TICK_ERRORS /\ wpc = "idle"
        /\ tpc = "backoff" => streak < MAX_TICK_ERRORS
        /\ streak >= MAX_TICK_ERRORS => tpc \in {"cooldown", "done"})
  /\ [][(tpc = "cooldown" /\ tpc' # "cooldown" /\ ~cancel_requested)
          => (tpc' = "sleep" /\ tick_errors' = 0 /\ runs' = runs
              /\ refreshes' = refreshes)]_vars

\* C6 witness: the ticker is in the cooldown.
C6_Witness ==
  /\ tpc = "cooldown"
  /\ tick_errors = MAX_TICK_ERRORS
  /\ streak = MAX_TICK_ERRORS

\* C7: after a heartbeat whose due steps all completed, tick_errors is 0,
\* whatever it was when the heartbeat began.
C7_SuccessResets == beat_outcome = "ok" => tick_errors = 0

\* C7 witness: a heartbeat that began with errors counted has succeeded.
C7_Witness ==
  /\ beat_outcome = "ok"
  /\ errors_before > 0
  /\ tick_errors = 0

\* C8: an exception of the refresh or of the recompute never ends the task
\* (the task ends only once its cancellation was asked for), tick_running
\* stays true while the application serves, and the backoff, unless
\* cancelled, leads to the next heartbeat sleep.
C8_ErrorsContained ==
  /\ [](/\ tpc # "failed"
        /\ tpc = "done" => lpc \in {"await_task", "stopped"}
        /\ (lpc = "serving" /\ tpc \notin {"none", "new"}) => tick_running)
  /\ [][(tpc \in {"backoff", "cooldown"} /\ tpc' # tpc /\ ~cancel_requested)
          => tpc' = "sleep"]_vars

\* C8 witness: after a failed heartbeat and its backoff the loop is at the
\* heartbeat sleep again, still running.
C8_Witness ==
  /\ tpc = "sleep"
  /\ beat_outcome = "failed"
  /\ tick_running
  /\ tick_errors > 0

\* The worker has taken the engine its run_forecast works on.
EngineTaken == wpc \in {"recompute_horizon", "recompute_publish", "recompute_stamp"}

\* C9: when the ticker's await of a data refresh returns, the recompute is
\* handed to the executor in the same step, with no heartbeat in between; it
\* works on the engine over the data set that refresh installed, and when the
\* heartbeat succeeds the cached result and its stamp come from it.
C9_RefreshThenRecompute ==
  /\ [][(tpc = "await_refresh" /\ wk_result = "ok" /\ ~cancel_requested
         /\ tpc' # tpc)
          => (/\ tpc' = "await_recompute"
              /\ wpc' = "recompute_call"
              /\ runs' = runs + 1
              /\ beats' = beats)]_vars
  /\ [](beat_refresh # 0 =>
          /\ (tpc = "await_recompute" /\ EngineTaken)
               => wk_engine.loader = beat_refresh
          /\ beat_outcome = "ok" =>
               /\ cached_forecast.data = beat_refresh
               /\ cached_forecast.run = last_forecast_time
               /\ last_forecast_time # tick_time0)

\* C9 witness: a heartbeat has refreshed the data and cached a forecast of it.
C9_Witness ==
  /\ beat_refresh # 0
  /\ beat_outcome = "ok"
  /\ tpc = "sleep"
  /\ cached_forecast.data = beat_refresh

\* C10: the ticker task does not terminate while a refresh or recompute
\* worker is executing, so that once it has terminated cached_forecast,
\* last_data_refresh and last_forecast_time are never written.
C10_NoWriteAfterStop == [][tpc = "done" => UNCHANGED pubVars]_vars

\* ------------------------------------------------------------ alert claims
\* The condition of an alert's kind on a snapshot, as section 4.8 states it.
KindHolds(alert, fd) ==
  \/ alert.type = "stability_threshold" /\ fd.stability >= alert.threshold
  \/ alert.type = "payload_change" /\ fd.payload_reduction < alert.threshold

\* check_alerts returned a trigger for the alert with this id
Returned(id) ==
  \E k \in 1 .. Len(alert_call.ret) : alert_call.ret[k].id = id

\* C11: check_alerts returns a trigger for a rule if and only if the rule is
\* enabled and the condition of its kind holds on the snapshot given
\* (stability >= threshold, payload_reduction < threshold); every trigger
\* returned belongs to a rule; disabled rules never trigger.
C11_CheckTriggers ==
  alert_call.op = "check_alerts" =>
    /\ \A i \in 1 .. Len(alerts) :
         Returned(alerts[i].id) <=>
           (alerts[i].enabled /\ KindHolds(alerts[i], alert_call.arg))
    /\ \A k \in 1 .. Len(alert_call.ret) :
         \E i \in 1 .. Len(alerts) : alerts[i].id = alert_call.ret[k].id

\* a check under which one rule fires on the boundary stability = threshold
\* and a disabled rule whose condition holds stays silent
C11_Witness ==
  /\ alert_call.op = "check_alerts"
  /\ \E i \in 1 .. Len(alerts) :
       /\ alerts[i].type = "stability_threshold"
       /\ alerts[i].threshold = alert_call.arg.stability
       /\ Returned(alerts[i].id)
  /\ \E i \in 1 .. Len(alerts) :
       ~alerts[i].enabled /\ KindHolds(alerts[i], alert_call.arg)

\* C12: a hub_shift rule never produces a triggered alert, in the returned
\* list or in the triggered history, and check_alerts never raises, whether
\* or not other rules fire in the same call.
C12_HubShiftInert ==
  /\ alert_call.op = "check_alerts" =>
       /\ ~alert_call.raised
       /\ \A k \in 1 .. Len(alert_call.ret) :
            alert_call.ret[k].type # "hub_shift"
  /\ \A k \in 1 .. Len(triggered) : triggered[k].type # "hub_shift"

\* a check with an enabled hub_shift rule in which another rule fired
C12_Witness ==
  /\ alert_call.op = "check_alerts"
  /\ alert_call.ret # << >>
  /\ \E i \in 1 .. Len(alerts) :
       alerts[i].type = "hub_shift" /\ alerts[i].enabled

\* C13: while clear_triggered has not been called, the triggered history is
\* the most recent min(50, number fired) alerts fired, in firing order.
C13_RingBuffer ==
  ~cleared =>
    LET n == Len(fired_log)
        m == IF n <= 50 THEN n ELSE 50
    IN /\ Len(triggered) = m
       /\ \A k \in 1 .. m : triggered[k] = fired_log[n - m + k]

\* more than 50 alerts fired, by rules that were changed along the way
C13_Witness ==
  /\ ~cleared
  /\ Len(fired_log) > 50
  /\ rule_ops > 0
  /\ \E k \in 1 .. Len(triggered) : triggered[k].type # triggered[1].type

\* C14: each triggered alert records as current_value the snapshot field its
\* rule evaluated: stability for a stability_threshold rule, payload_reduction
\* for a payload_change rule.
C14_ObservedValue ==
  alert_call.op = "check_alerts" =>
    \A k \in 1 .. Len(alert_call.ret) :
      LET t == alert_call.ret[k]
      IN /\ t.type = "stability_threshold" =>
              t.current_value = alert_call.arg.stability
         /\ t.type = "payload_change" =>
              t.current_value = alert_call.arg.payload_reduction

\* --------------------------------------------------------- backtest claims
\* the step is a store_prediction or an update_actuals call
BacktestCall == stored' # stored \/ actual_ops' # actual_ops

\* the entries of the history before the step that the step changed
ChangedEntries ==
  {i \in 1 .. Len(history) : i > Len(history') \/ history'[i] # history[i]}

\* C15: an entry's metrics are present if and only if its actuals are; a
\* store_prediction or update_actuals call never changes an entry whose
\* actuals are set, and changes at most one entry.
C15_MutatedOnce ==
  /\ [](\A i \in 1 .. Len(history) :
          (history[i].actual = << >>) <=> (history[i].metrics = << >>))
  /\ [][BacktestCall =>
          /\ \A i \in ChangedEntries : history[i].actual = << >>
          /\ Cardinality(ChangedEntries) <= 1]_vars

\* two update_actuals calls have set the actuals of two different entries
C15_Witness ==
  /\ actual_ops = 2
  /\ Len(history) >= 3
  /\ history[1].actual # << >>
  /\ history[2].actual # << >>
  /\ history[1].actual # history[2].actual
  /\ history[3].actual = << >>

\* C16: update_actuals(target_date, actuals) leaves every entry whose
\* timestamp is not target_date unchanged (so it changes nothing when no
\* entry has that timestamp).
C16_UpdateByDate ==
  [][actual_ops' # actual_ops =>
       \A i \in 1 .. Len(history) :
         history[i].timestamp # bt_call'.arg.target_date =>
           (i <= Len(history') /\ history'[i] = history[i])]_vars

\* -------------------------------------------------------- persistence claims
\* C17: the rule list a restarted process loads equals the list held before
\* the restart (same ids, fields, order), after any calls and after none,
\* provided no storage write failed.
C17_RulesSurviveRestart ==
  [][(apc = "up" /\ restarts' # restarts /\ write_failures = 0) =>
       alerts' = alerts]_vars

\* C18 as stated: the history a restarted process loads equals the whole
\* history held before the restart, provided no storage write failed.
C18_Original ==
  [][(bpc = "up" /\ restarts' # restarts /\ write_failures = 0) =>
       history' = history]_vars

\* C18: the history a restarted process loads equals the last 100 entries of
\* the history held before the restart, in order, provided no storage write
\* failed.
C18_HistorySurvives ==
  [][(bpc = "up" /\ restarts' # restarts /\ write_failures = 0) =>
       LET n == Len(history)
           m == IF n <= 100 THEN n ELSE 100
       IN /\ Len(history') = m
          /\ \A k \in 1 .. m : history'[k] = history[n - m + k]]_vars

\* a restart after more than 100 stored predictions, some with actuals
C18_Witness ==
  /\ bpc = "up"
  /\ bt_call.op = "restart"
  /\ Len(bt_call.before) > 100
  /\ Len(history) = 100
  /\ history[1].timestamp = Len(bt_call.before) - 99
  /\ bt_call.before[1].actual # << >>

\* C19: when the storage write of create_alert, update_alert, delete_alert,
\* store_prediction or update_actuals fails, the call raises nothing and the
\* object in memory holds the mutation, the result being that of the call
\* whose write succeeds: whatever the write's outcome, the call leaves the
\* same list and returns the same value.
C19_WriteFailureContained ==
  /\ alert_call.op = "create_alert" =>
       /\ ~alert_call.raised
       /\ alerts = Append(alert_call.before, alert_call.ret)
       /\ alert_call.ret.type = alert_call.arg.type
       /\ alert_call.ret.threshold = alert_call.arg.threshold
       /\ alert_call.ret.enabled = alert_call.arg.enabled
       /\ \A i \in 1 .. Len(alert_call.before) :
            alert_call.before[i].id # alert_call.ret.id
  /\ alert_call.op = "delete_alert" =>
       /\ ~alert_call.raised
       /\ alert_call.ret =
            (\E i \in 1 .. Len(alert_call.before) :
               alert_call.before[i].id = alert_call.arg)
       /\ alerts = SelectSeq(alert_call.before,
                             LAMBDA a : a.id # alert_call.arg)
  /\ alert_call.op = "update_alert" =>
       /\ ~alert_call.raised
       /\ Len(alerts) = Len(alert_call.before)
       /\ \A i \in 1 .. Len(alerts) :
            IF alerts[i].id = alert_call.arg[1]
            THEN /\ alert_call.ret = <<alerts[i]>>
                 /\ alerts[i].id = alert_call.before[i].id
                 /\ \A k \in (DOMAIN alert_call.arg[2]) \cap
                             {"type", "threshold", "enabled"} :
                      alerts[i][k] = alert_call.arg[2][k]
            ELSE alerts[i] = alert_call.before[i]
       /\ (alert_call.ret = << >>) <=>
            (\A i \in 1 .. Len(alerts) : alerts[i].id # alert_call.arg[1])
  /\ bt_call.op = "store_prediction" =>
       /\ ~bt_call.raised
       /\ Len(history) = Len(bt_call.before) + 1
       /\ SubSeq(history, 1, Len(bt_call.before)) = bt_call.before
       /\ history[Len(history)].predictions = bt_call.arg.predictions
       /\ history[Len(history)].horizon = bt_call.arg.horizon
       /\ history[Len(history)].actual = << >>
  /\ bt_call.op = "update_actuals" =>
       /\ ~bt_call.raised
       /\ Len(history) = Len(bt_call.before)
       /\ \A i \in 1 .. Len(history) :
            \/ history[i] = bt_call.before[i]
            \/ /\ bt_call.before[i].actual = << >>
               /\ history[i].actual = <<bt_call.arg.actuals>>
       /\ (\E i \in 1 .. Len(history) : bt_call.before[i].actual = << >>)
            => history # bt_call.before

\* a create_alert whose file was left torn, and an update_actuals whose file
\* could not be opened, have returned
C19_Witness ==
  \/ /\ alert_call.op = "create_alert"
     /\ alert_call.wrote = "torn"
     /\ alerts_file.state = "torn"
  \/ /\ bt_call.op = "update_actuals"
     /\ bt_call.wrote = "unopened"
     /\ history # bt_call.before

\* ------------------------------------------------------ obligation claims
\* C20: the returned matrix has a zero diagonal, each off-diagonal entry is
\* B[i][j] * (1 + clamp(100*s[i], -0.9, 2.0)) and so lies between 0.1*B[i][j]
\* and 3.0*B[i][j] (all entries >= 0), and B is not modified.  Entries of the
\* result are in tenths.
C20_ObligationsBounded ==
  /\ [](opc = "done" =>
          \A p \in Pairs :
            IF p[1] = p[2] THEN obligations[p] = 0
            ELSE LET c == node_scores[p[1]]
                     clamped == IF c < -9 THEN -9 ELSE IF c > 20 THEN 20 ELSE c
                 IN /\ obligations[p] = base_obligations[p] * (10 + clamped)
                    /\ 1 * base_obligations[p] <= obligations[p]
                    /\ obligations[p] <= 30 * base_obligations[p]
                    /\ obligations[p] >= 0)
  /\ [][base_obligations' = base_obligations]_vars

\* a call with a score below the lower clamp, one above the upper clamp, and
\* one between, on positive exposures
C20_Witness ==
  /\ opc = "done"
  /\ node_scores[0] < -9 /\ node_scores[1] > 20 /\ node_scores[2] = 0
  /\ \A p \in OffDiag : base_obligations[p] > 0

\* ================================================= scheduler claims, second
\* C22: the status the API layer exposes tells active from paused: in the
\* long cooldown entered after MAX_TICK_ERRORS consecutive failures it
\* reports the scheduler as not active, and while the loop is ticking (the
\* application serving, the task at its heartbeat sleep or awaiting a worker)
\* it reports it as active.
C22_StatusTellsPaused ==
  /\ tpc = "cooldown" => ~TickStatus.ticker_active
  /\ (lpc = "serving" /\ tpc \in {"sleep", "await_refresh", "await_recompute"})
       => TickStatus.ticker_active

\* C28: whenever ticker_task has terminated, tick_running is false, at
\* whichever await the cancellation was delivered: the heartbeat sleep, the
\* await of a worker, or the 10 s or 300 s sleep of the except clause (where
\* line 106 is not run).
C28_StoppedNotRunning == tpc = "done" => ~tick_running

\* C28 witness: the task was cancelled in its 300 s cooldown sleep (the only
\* place where tick_errors is MAX_TICK_ERRORS) and has terminated.
C28_Witness ==
  /\ tpc = "done"
  /\ tick_errors = MAX_TICK_ERRORS
  /\ streak = MAX_TICK_ERRORS

\* C29: in every reachable state, a failed startup refresh included,
\* last_forecast_time differs from its placeholder only if cached_forecast
\* holds a forecast result.
C29_StampOnlyWithForecast ==
  last_forecast_time # 0 => cached_forecast # NoForecast

\* C30: once cached_forecast holds a forecast result it never becomes None
\* again, whichever refresh and recompute steps fail or succeed; every
\* change of it installs a complete result of a later run_forecast call.
C30_CacheNeverEmptied ==
  [][/\ cached_forecast # NoForecast => cached_forecast' # NoForecast
     /\ cached_forecast' # cached_forecast
          => /\ Complete(cached_forecast')
             /\ cached_forecast'.run > cached_forecast.run]_vars

\* C30 witness: the cache holds the result of a second or later run while
\* the ticker backs off from a failed heartbeat.
C30_Witness ==
  /\ tpc = "backoff"
  /\ streak >= 1
  /\ cached_forecast # NoForecast
  /\ cached_forecast.run >= 2

\* The task is between a failed heartbeat and the next one: in the sleep of
\* the except clause, or back at the heartbeat sleep.
AfterFailure(step) ==
  /\ failed_step = step
  /\ tpc \in {"backoff", "cooldown", "sleep"}

\* C27: a step that failed is retried and a step that succeeded is not
\* repeated.  After a refresh that raised, data_countdown is not reset and
\* the first heartbeat after the backoff hands the refresh to the executor
\* again.  After a recompute that raised behind a refresh that succeeded in
\* the same heartbeat, data_countdown is reset, and that next heartbeat hands
\* over the recompute only.  The ticker starts a refresh only on a heartbeat
\* that brings data_countdown to 0 or below, and data_countdown changes only
\* by one per heartbeat or by the reset after a refresh that returned.
C27_FailedStepRetried ==
  /\ [](/\ AfterFailure("refresh") => data_countdown <= 0
        /\ (AfterFailure("recompute") /\ beat_refresh # 0)
             => /\ data_countdown = DATA_REFRESH_INTERVAL
                /\ forecast_countdown <= 0)
  /\ [][/\ (failed_step = "refresh" /\ beats' = beats + 1)
             => /\ tpc' = "await_refresh"
                /\ wpc' = "refresh_load"
                /\ runs' = runs
        /\ (failed_step = "recompute" /\ beat_refresh # 0 /\ beats' = beats + 1)
             => /\ tpc' = "await_recompute"
                /\ wpc' = "recompute_call"
                /\ runs' = runs + 1
                /\ data_countdown' = DATA_REFRESH_INTERVAL - 1
        /\ (tpc # "await_refresh" /\ tpc' = "await_refresh")
             => /\ beats' = beats + 1
                /\ data_countdown' <= 0
        /\ (data_countdown' # data_countdown /\ tpc # "new")
             => \/ beats' = beats + 1 /\ data_countdown' = data_countdown - 1
                \/ /\ tpc = "await_refresh" /\ wk_result = "ok"
                   /\ data_countdown' = DATA_REFRESH_INTERVAL]_vars

\* C27 witness: the heartbeat after one whose refresh succeeded and whose
\* recompute raised: the recompute alone is with the executor, an error is
\* counted, and data_countdown is one below its interval.
C27_Witness ==
  /\ tpc = "await_recompute"
  /\ failed_step = "none"
  /\ beat_refresh = 0
  /\ tick_errors >= 1
  /\ data_countdown = DATA_REFRESH_INTERVAL - 1
  /\ last_data_refresh # 0

\* ======================================================= netting claims, second
\* Two cycles share an edge.
ShareEdge(c, d) == CycleEdgeSet(c) \cap CycleEdgeSet(d) # {}

\* C24: cycles are processed in non-increasing order of combined centrality
\* (so of two cycles that share an edge and differ in their sums, the one
\* with the higher sum comes first); the cycle processed is cancelled only if
\* all its edges still exist, by the minimum of their weights as already
\* reduced, and is otherwise skipped with no weight changed; no edge off the
\* cycle changes.
C24_HubCyclesFirst ==
  [][(npc = "loop" /\ npc' = "loop" /\ cycles' # cycles) =>
       /\ cycles' \subseteq cycles
       /\ Cardinality(cycles \ cycles') = 1
       /\ LET c == CHOOSE x \in cycles \ cycles' : TRUE
              es == CycleEdgeSet(c)
          IN /\ \A d \in cycles' :
                  CycleKey(centrality_scores, c) >= CycleKey(centrality_scores, d)
             /\ \A d \in cycles' :
                  (ShareEdge(c, d) /\ CycleKey(centrality_scores, c)
                                        # CycleKey(centrality_scores, d))
                    => CycleKey(centrality_scores, c)
                         > CycleKey(centrality_scores, d)
             /\ IF es \subseteq DOMAIN G
                THEN LET m == MinOf({G[e] : e \in es})
                     IN /\ DOMAIN G' \subseteq DOMAIN G
                        /\ \A e \in DOMAIN G \ es : e \in DOMAIN G' /\ G'[e] = G[e]
                        /\ \A e \in es :
                             IF e \in DOMAIN G'
                             THEN G'[e] = G[e] - m /\ G'[e] > EPS
                             ELSE G[e] - m <= EPS
                        /\ \E e \in es : e \notin DOMAIN G'
                ELSE G' = G]_vars

\* C24 witness: the first call has returned on a graph where a cycle of
\* higher combined centrality shared an edge with one of lower: the shared
\* edge is gone, and the lower cycle was skipped, an edge of it keeping the
\* weight it came with.
C24_Witness ==
  /\ npc = "done"
  /\ napply = 1
  /\ \E c, d \in SimpleCycles(DiGraph(predicted_trades)) :
       /\ ShareEdge(c, d)
       /\ CycleKey(centrality_scores, c) > CycleKey(centrality_scores, d)
       /\ \A e \in CycleEdgeSet(c) \cap CycleEdgeSet(d) : optimized_matrix[e] = 0
       /\ \E e \in CycleEdgeSet(d) \ CycleEdgeSet(c) :
            optimized_matrix[e] = predicted_trades[e]

\* C25: the matrix minimize_payload returns has no directed cycle: every
\* simple cycle of the input graph has lost at least one of its edges,
\* whatever the centrality vector and the order of equal keys.  (Stated of
\* the first call: the inputs of the second are inputs of a first call too.)
C25_Acyclic ==
  (npc = "done" /\ napply = 1) =>
    /\ SimpleCycles(DiGraph(optimized_matrix)) = {}
    /\ \A c \in SimpleCycles(DiGraph(predicted_trades)) :
         \E e \in CycleEdgeSet(c) : optimized_matrix[e] = 0

\* C25 witness: the first call has returned on a graph with two cycles that
\* share an edge, with obligations left.
C25_Witness ==
  /\ npc = "done"
  /\ napply = 1
  /\ \E c, d \in SimpleCycles(DiGraph(predicted_trades)) : c # d /\ ShareEdge(c, d)
  /\ \E p \in Pairs : optimized_matrix[p] > 0

\* inflow_n - outflow_n on the matrix M
NetPosition(M, n) ==
  SumOver([i \in Nodes |-> M[<<i, n>>]], Nodes)
    - SumOver([j \in Nodes |-> M[<<n, j>>]], Nodes)

\* C26: netting preserves every node's net position whenever no edge was
\* pruned with a non-zero remainder; and each netted entry is at most the
\* input's, with no entry where the input had none.  This holds of the graph
\* after every cancellation and of the matrix returned.  (Stated of the
\* first call: the inputs of the second are inputs of a first call too.)
C26_NetPositionKept ==
  napply = 1 =>
    /\ npc = "loop" =>
         /\ \A e \in DOMAIN G : predicted_trades[e] # 0 /\ G[e] <= predicted_trades[e]
         /\ pruned_residue = 0 =>
              \A n \in Nodes :
                NetPosition(ToNumpyArray(G), n) = NetPosition(predicted_trades, n)
    /\ npc = "done" =>
         /\ \A p \in Pairs :
              /\ optimized_matrix[p] <= predicted_trades[p]
              /\ predicted_trades[p] = 0 => optimized_matrix[p] = 0
         /\ pruned_residue = 0 =>
              \A n \in Nodes :
                NetPosition(optimized_matrix, n) = NetPosition(predicted_trades, n)

\* C26 witness: the first call has returned after cancelling two cycles or
\* more without pruning any remainder, obligations left, and some node owes
\* more than it is owed.
C26_Witness ==
  /\ npc = "done"
  /\ napply = 1
  /\ pruned_residue = 0
  /\ Cardinality(SimpleCycles(DiGraph(predicted_trades))) >= 2
  /\ final_volume < initial_volume
  /\ \E n \in Nodes : NetPosition(optimized_matrix, n) < 0

\* ========================================================== engine claims
\* C23: get_systemic_hubs returns a stability index equal to the largest
\* absolute eigenvalue of the risk matrix and a centrality vector with all
\* entries >= 0; for a diagonal matrix d_1 .. d_N the stability index is
\* max |d_i| (so >= 0) and the centrality is the eigenvector (a unit vector)
\* of the first i that attains it; the same input gives the same output.
C23_HubsOfDiagonal ==
  hpc = "done" =>
    LET d == [n \in Nodes |-> risk_matrix[<<n, n>>]]
    IN /\ hubs.stability_limit >= 0
       /\ \A n \in Nodes : hubs.stability_limit >= d[n] /\ hubs.stability_limit >= -d[n]
       /\ \A n \in Nodes : hubs.centrality[n] >= 0
       /\ \E i \in Nodes :
            /\ d[i] = hubs.stability_limit \/ -d[i] = hubs.stability_limit
            /\ \A j \in Nodes :
                 j < i => (d[j] < hubs.stability_limit /\ -d[j] < hubs.stability_limit)
            /\ hubs.centrality = [n \in Nodes |-> IF n = i THEN 1 ELSE 0]
       /\ hubs_calls = 2 => hubs = hubs_before

\* C23 witness: the second call has returned on a matrix whose largest
\* magnitude is attained twice, by entries of opposite sign, the first of
\* them not at the first node.
C23_Witness ==
  /\ hpc = "done"
  /\ hubs_calls = 2
  /\ risk_matrix[<<1, 1>>] = -MaxD
  /\ risk_matrix[<<2, 2>>] = MaxD
  /\ risk_matrix[<<0, 0>>] \in {1, -1}
  /\ hubs.centrality[1] = 1

\* The liquidity vector or the obligation matrix of the run holds a
\* non-finite value.
InputsNonFinite ==
  \/ \E n \in Nodes : ~IsFinite(liquidity[n])
  \/ \E p \in Pairs : ~IsFinite(run_base[p])

\* C21: when the liquidity vector or the obligation matrix contains a
\* non-finite value, the forecast run is rejected with an error before the
\* Jacobian step is executed, no snapshot is produced for any horizon, and
\* the previously cached result remains in place.
C21_RejectedBeforeJacobian ==
  (rpc # "idle" /\ InputsNonFinite) =>
    /\ jacobians = 0
    /\ run_horizons = << >>
    /\ run_cache = cache_before
    /\ rpc \notin {"netting", "publish", "returned"}

====
